---------------------------- MODULE Spec2Model ----------------------------
(***************************************************************************)
(* Citation parsing and rendering of the citations demo.                   *)
(*                                                                         *)
(* A text is a sequence of symbols.  A symbol is one ordinary character    *)
(* (a letter, a space, a full stop) or one whole marker, written as the    *)
(* exact string the regular expressions of src/utils/citationParser.ts     *)
(* match as a unit.  Every offset the code computes is the start or the    *)
(* end of a regular-expression match, so offsets are counted in symbols;   *)
(* they are 0-based as in the source.  Scores are kept in hundredths       *)
(* (0.8 is 80).  The patterns of src/services/geminiService.ts are        *)
(* modelled on strings, character by character.  The chat component of     *)
(* the demo is modelled by its state hooks and one action per handler and  *)
(* per continuation of an await.                                           *)
(***************************************************************************)
EXTENDS Integers, Sequences, FiniteSets, TLC

(***************************************************************************)
(* Bounds of the model.                                                    *)
(***************************************************************************)
MaxLen == 5          \* longest text handed to a direct parser call
MaxContentLen == 3   \* longest content handed to a render pass
MaxModeLen == 4      \* longest text handed to one parsing mode on its own

(***************************************************************************)
(* Symbols.                                                                *)
(***************************************************************************)
CITE1 == "[CITE:1]"
CITE2 == "[CITE:2]"
END1 == "[/CITE:1]"
SRC1 == "[Source:1] T1 - http://x.com (2024-01-01)"
LEGACY == "[Source: T | URL: https://arxiv.org/abs/1 | Date: 2024-01-01 | Confidence: High]"
Undefined == "undefined"

Letters == {"a"}
Whitespace == {" ", "\n"}
SentenceEnd == {".", "!", "?"}
BULLET == "U+2022"      \* the bullet character, written by its code point
Bullets == {BULLET, "-", "*"}
OpenMarkers == {CITE1, CITE2}
CloseMarkers == {END1}
SourceLines == {SRC1}
LegacyMarkers == {LEGACY}
\* the older numbered source reference, [Source:n | Title: .. | URL: .. | Date: .. | Confidence: ..]
OLDSRC1 == "[Source:1 | Title: T1 | URL: http://x.com | Date: 2024-01-01 | Confidence: High]"
OldSourceLines == {OLDSRC1}
Numbers == {"1", "2"}

\* the capture groups of the markers
CiteNumber(t) == IF t = CITE2 THEN "2" ELSE "1"
SourceNumber(t) == "1"
SourceTitle(t) == "T1"
SourceUrl(t) == "http://x.com"
OldSourceConfidence(t) == "High"
LegacyTitle(t) == "T"
LegacyUrl(t) == "https://arxiv.org/abs/1"
LegacyConfidence(t) == "High"

\* String.prototype.includes: part occurs somewhere in url
UrlIncludes(url, part) ==
  \E i \in 1..(Len(url) - Len(part) + 1) : SubSeq(url, i, i + Len(part) - 1) = part

(***************************************************************************)
(* String helpers (JavaScript semantics).                                  *)
(***************************************************************************)
Min(a, b) == IF a < b THEN a ELSE b
Max(a, b) == IF a > b THEN a ELSE b
Clamp(i, n) == Max(0, Min(i, n))

\* s.substring(from, to): both clamped to the string, swapped when from > to
Substring(s, from, to) ==
  LET a == Clamp(from, Len(s))
      b == Clamp(to, Len(s))
  IN SubSeq(s, Min(a, b) + 1, Max(a, b))

SubstringFrom(s, from) == Substring(s, from, Len(s))

\* s.trim()
TrimBounds(s) ==
  LET ink == {i \in 1..Len(s) : s[i] \notin Whitespace}
  IN IF ink = {} THEN <<1, 0>>
     ELSE <<CHOOSE i \in ink : \A j \in ink : i <= j,
            CHOOSE i \in ink : \A j \in ink : i >= j>>

Trim(s) == SubSeq(s, TrimBounds(s)[1], TrimBounds(s)[2])

\* s.indexOf(needle): first offset at which needle occurs, -1 when none
IndexOf(s, needle) ==
  LET hits == {i \in 0..(Len(s) - Len(needle)) :
                 SubSeq(s, i + 1, i + Len(needle)) = needle}
  IN IF hits = {} THEN -1 ELSE CHOOSE i \in hits : \A j \in hits : i <= j

\* s.replace(pattern, '') for a pattern that matches exactly the symbols of set
RemoveSymbols(s, set) == SelectSeq(s, LAMBDA t : t \notin set)

RECURSIVE Concat(_)
Concat(ss) == IF ss = <<>> THEN <<>> ELSE Head(ss) \o Concat(Tail(ss))

(***************************************************************************)
(* Citation builder helpers.                                               *)
(***************************************************************************)
\* the rules with the academic/doc hosts tried before the .pdf extension
SourceTypeHostFirst(url) ==
  IF UrlIncludes(url, "youtube.com") \/ UrlIncludes(url, "youtu.be") THEN "video"
  ELSE IF UrlIncludes(url, "arxiv.org") \/ UrlIncludes(url, "docs.") \/ UrlIncludes(url, ".doc")
    THEN "document"
  ELSE IF UrlIncludes(url, ".pdf") THEN "pdf"
  ELSE IF UrlIncludes(url, "spotify.com") \/ UrlIncludes(url, "soundcloud.com") THEN "audio"
  ELSE IF UrlIncludes(url, ".jpg") \/ UrlIncludes(url, ".png") \/ UrlIncludes(url, ".gif")
    THEN "image"
  ELSE "web"

determineSourceType(url) ==
  IF UrlIncludes(url, "youtube.com") \/ UrlIncludes(url, "youtu.be") THEN "video"
  ELSE IF UrlIncludes(url, ".pdf") THEN "pdf"
  ELSE IF UrlIncludes(url, "spotify.com") \/ UrlIncludes(url, "soundcloud.com") THEN "audio"
  ELSE IF UrlIncludes(url, ".jpg") \/ UrlIncludes(url, ".png") \/ UrlIncludes(url, ".gif")
    THEN "image"
  ELSE IF UrlIncludes(url, "arxiv.org") \/ UrlIncludes(url, "docs.") \/ UrlIncludes(url, ".doc")
    THEN "document"
  ELSE "web"

\* confidence.toLowerCase(), character by character (the capitals are those that
\* occur in the labels of the model)
RECURSIVE LowerLabel(_)
LowerLabel(label) ==
  LET LowerChar(c) ==
        CASE c = "H" -> "h" [] c = "I" -> "i" [] c = "G" -> "g" [] c = "M" -> "m"
          [] c = "E" -> "e" [] c = "D" -> "d" [] c = "U" -> "u" [] c = "L" -> "l"
          [] c = "O" -> "o" [] c = "W" -> "w" [] c = "S" -> "s" [] c = "T" -> "t"
          [] OTHER -> c
  IN IF label = "" THEN ""
     ELSE LowerChar(SubSeq(label, 1, 1)) \o LowerLabel(SubSeq(label, 2, Len(label)))

\* the mapping without toLowerCase
ConfidenceCaseSensitive(confidence) ==
  CASE confidence = "high" -> 90
    [] confidence = "medium" -> 70
    [] confidence = "low" -> 50
    [] OTHER -> 60

parseConfidence(confidence) ==
  CASE LowerLabel(confidence) = "high" -> 90
    [] LowerLabel(confidence) = "medium" -> 70
    [] LowerLabel(confidence) = "low" -> 50
    [] OTHER -> 60

\* the bonuses of calculateQualityFromUrl without Math.min
QualityUnclamped(url) ==
  50 + (IF UrlIncludes(url, ".edu") \/ UrlIncludes(url, ".gov") THEN 20 ELSE 0)
     + (IF UrlIncludes(url, "arxiv.org") \/ UrlIncludes(url, "scholar.google.com") THEN 30 ELSE 0)
     + (IF UrlIncludes(url, "wikipedia.org") THEN 10 ELSE 0)
     + (IF UrlIncludes(url, "ibm.com") \/ UrlIncludes(url, "nature.com")
           \/ UrlIncludes(url, "science.org") THEN 20 ELSE 0)

calculateQualityFromUrl(url) ==
  LET q1 == 50 + (IF UrlIncludes(url, ".edu") \/ UrlIncludes(url, ".gov") THEN 20 ELSE 0)
      q2 == q1 + (IF UrlIncludes(url, "arxiv.org") \/ UrlIncludes(url, "scholar.google.com")
                    THEN 30 ELSE 0)
      q3 == q2 + (IF UrlIncludes(url, "wikipedia.org") THEN 10 ELSE 0)
      q4 == q3 + (IF UrlIncludes(url, "ibm.com") \/ UrlIncludes(url, "nature.com")
                       \/ UrlIncludes(url, "science.org") THEN 20 ELSE 0)
  IN Min(q4, 100)

\* the citation of a numbered source line, built from its captured fields
SourceFieldsCitation(sourceId, title, url) ==
  [id |-> "inline-citation-" \o sourceId,
   source |-> title,
   type |-> determineSourceType(url),
   content |-> <<"Information from " \o title>>,
   relevance |-> 80,
   url |-> url,
   confidence |-> 70,
   quality |-> calculateQualityFromUrl(url),
   highlightedText |-> <<>>]

\* the citation of a numbered source line, [Source:n] Title - URL (Date)
SourceLineCitation(t) == SourceFieldsCitation(SourceNumber(t), SourceTitle(t), SourceUrl(t))

\* the placeholder built for a [CITE:n] whose number has no source line
FallbackCitation(n) ==
  [id |-> "inline-citation-" \o n,
   source |-> "Research Source " \o n,
   type |-> "web",
   content |-> <<"Referenced information from source " \o n>>,
   relevance |-> 70,
   url |-> "#source-" \o n,
   confidence |-> 60,
   quality |-> 50,
   highlightedText |-> <<>>]


\* the citation of an old-format numbered source reference
OldSourceCitation(t) ==
  [id |-> "inline-citation-" \o SourceNumber(t),
   source |-> SourceTitle(t),
   type |-> determineSourceType(SourceUrl(t)),
   content |-> <<"Information from " \o SourceTitle(t)>>,
   relevance |-> parseConfidence(OldSourceConfidence(t)),
   url |-> SourceUrl(t),
   confidence |-> parseConfidence(OldSourceConfidence(t)),
   quality |-> calculateQualityFromUrl(SourceUrl(t)),
   highlightedText |-> <<>>]

\* the citation of a legacy marker, built from its captured (trimmed) fields
LegacyFieldsCitation(k, title, url, confidence, highlighted) ==
  [id |-> "citation-" \o ToString(k),
   source |-> title,
   type |-> determineSourceType(url),
   content |-> <<"Citation from " \o title>>,
   relevance |-> parseConfidence(confidence),
   url |-> url,
   confidence |-> parseConfidence(confidence),
   quality |-> calculateQualityFromUrl(url),
   highlightedText |-> highlighted]

(***************************************************************************)
(* The API client's scoring helpers and builders (geminiService.ts).       *)
(***************************************************************************)
calculateRelevance(confidence) ==
  CASE LowerLabel(confidence) = "high" -> 90
    [] LowerLabel(confidence) = "medium" -> 70
    [] LowerLabel(confidence) = "low" -> 50
    [] OTHER -> 60

\* title.length > 10 earns the title bonus
TitleBonusLength == 10

calculateQuality(title, url) ==
  LET q1 == 50 + (IF UrlIncludes(url, "arxiv.org") \/ UrlIncludes(url, "scholar.google.com")
                    THEN 30 ELSE 0)
      q2 == q1 + (IF UrlIncludes(url, ".edu") \/ UrlIncludes(url, ".gov") THEN 20 ELSE 0)
      q3 == q2 + (IF Len(title) > TitleBonusLength THEN 10 ELSE 0)
  IN Min(q3, 100)

\* new Date(dateStr), or the current time when that is an Invalid Date.  Of the
\* strings of the model the constructor accepts the ISO dates, YYYY-MM-DD.
parseDate(dateStr) ==
  LET digit(i) == SubSeq(dateStr, i, i) \in {"0", "1", "2", "3", "4", "5", "6", "7", "8", "9"}
  IN IF /\ Len(dateStr) = 10
        /\ SubSeq(dateStr, 5, 5) = "-"
        /\ SubSeq(dateStr, 8, 8) = "-"
        /\ \A i \in {1, 2, 3, 4, 6, 7, 9, 10} : digit(i)
       THEN dateStr
       ELSE "now"

\* the citation extractCitationsFromResponse pushes for the k-th marker
ResponseCitation(k, title, url, date, confidence, highlighted) ==
  [id |-> "citation-" \o ToString(k),
   source |-> title,
   type |-> determineSourceType(url),
   content |-> <<"Information from " \o title>>,
   relevance |-> calculateRelevance(confidence),
   url |-> url,
   timestamp |-> parseDate(date),
   confidence |-> calculateRelevance(confidence),
   quality |-> calculateQuality(title, url),
   highlightedText |-> highlighted]

\* new URL(url).hostname.replace('www.', '') of a URL without user, port or capitals;
\* 'Unknown Source' when the URL constructor throws for want of a scheme
extractDomainName(url) ==
  LET scheme == IndexOf(url, "://")
      rest == SubstringFrom(url, scheme + 3)
      slash == IndexOf(rest, "/")
      domain == IF slash = -1 THEN rest ELSE Substring(rest, 0, slash)
      www == IndexOf(domain, "www.")
  IN IF scheme = -1 THEN "Unknown Source"
     ELSE IF www = -1 THEN domain
     ELSE Substring(domain, 0, www) \o SubstringFrom(domain, www + 4)

\* the basic citation built for the index-th bare URL (index counts from 0)
AutoCitation(url, index) ==
  [id |-> "auto-citation-" \o ToString(index + 1),
   source |-> extractDomainName(url),
   type |-> determineSourceType(url),
   content |-> <<"Referenced source: " \o url>>,
   relevance |-> 70,
   url |-> url,
   confidence |-> 60,
   quality |-> 70]

(***************************************************************************)
(* Segments and references.  start and end are not fields of the source's  *)
(* HighlightedText: they record the arguments of the substring call (or    *)
(* the bounds of the capture group) that produced the segment's text, as   *)
(* offsets into the text the mode works on.                                *)
(***************************************************************************)
PlainSegment(txt, from, to) ==
  [text |-> txt, isHighlighted |-> FALSE, citationId |-> Undefined,
   start |-> from, end |-> to]

\* a highlight pushed without the citationId field
HighlightWithoutId(txt, id, from, to) ==
  [text |-> txt, isHighlighted |-> TRUE, citationId |-> Undefined, start |-> from, end |-> to]

HighlightSegment(txt, id, from, to) ==
  [text |-> txt, isHighlighted |-> TRUE, citationId |-> id,
   start |-> from, end |-> to]

Reference(id, txt, from, to) ==
  [citationId |-> id, inlineText |-> txt, position |-> from,
   highlightStart |-> from, highlightEnd |-> to]

(***************************************************************************)
(* parseInlineCitations: source lines.                                     *)
(*   sources maps a source number to the index, in extracted, of the       *)
(*   citation object the Map holds for it (the Map and the array share     *)
(*   the objects).                                                         *)
(***************************************************************************)
EmptySources == [n \in {} |-> 0]

RECURSIVE AddSourceLines(_, _, _)
AddSourceLines(lines, extracted, sources) ==
  IF lines = <<>> THEN [extracted |-> extracted, sources |-> sources]
  ELSE LET t == Head(lines)
           n == SourceNumber(t)
       IN AddSourceLines(Tail(lines), Append(extracted, SourceLineCitation(t)),
                         (n :> (Len(extracted) + 1)) @@ sources)

RECURSIVE AddOldSourceLines(_, _, _)
AddOldSourceLines(lines, extracted, sources) ==
  IF lines = <<>> THEN [extracted |-> extracted, sources |-> sources]
  ELSE LET t == Head(lines)
           n == SourceNumber(t)
       IN IF n \in DOMAIN sources
            THEN AddOldSourceLines(Tail(lines), extracted, sources)
            ELSE AddOldSourceLines(Tail(lines), Append(extracted, OldSourceCitation(t)),
                                   (n :> (Len(extracted) + 1)) @@ sources)

ExtractSources(text) ==
  LET new == AddSourceLines(SelectSeq(text, LAMBDA t : t \in SourceLines), <<>>, EmptySources)
  IN AddOldSourceLines(SelectSeq(text, LAMBDA t : t \in OldSourceLines),
                       new.extracted, new.sources)

CleanText(text) == Trim(RemoveSymbols(RemoveSymbols(text, SourceLines), OldSourceLines))

\* the numbers of the [CITE:n] markers of s, in order of first occurrence
RECURSIVE CitationIds(_, _)
CitationIds(s, seen) ==
  IF s = <<>> THEN <<>>
  ELSE IF Head(s) \in OpenMarkers /\ CiteNumber(Head(s)) \notin seen
    THEN <<CiteNumber(Head(s))>> \o CitationIds(Tail(s), seen \cup {CiteNumber(Head(s))})
    ELSE CitationIds(Tail(s), seen)

\* a parser that builds no placeholder
NoFallbacks(ids, extracted, sources) == [extracted |-> extracted, sources |-> sources]

\* "Create fallback citations": a placeholder for every number without a source
RECURSIVE AddFallbacks(_, _, _)
AddFallbacks(ids, extracted, sources) ==
  IF ids = <<>> THEN [extracted |-> extracted, sources |-> sources]
  ELSE IF Head(ids) \in DOMAIN sources
    THEN AddFallbacks(Tail(ids), extracted, sources)
    ELSE AddFallbacks(Tail(ids), Append(extracted, FallbackCitation(Head(ids))),
                      (Head(ids) :> (Len(extracted) + 1)) @@ sources)

(***************************************************************************)
(* The wrapped pattern /\[CITE:(\d+)\](.*?)\[\/CITE:\d+\]/g.               *)
(***************************************************************************)
NoMatch == [index |-> -1, end |-> -1]

\* 1-based position of the closing marker the lazy (.*?) stops at, 0 when the
\* pattern does not match at offset p ('.' does not cross a line break)
WrappedClose(s, p) ==
  LET closers == {q \in (p + 2)..Len(s) : s[q] \in CloseMarkers}
      q0 == CHOOSE q \in closers : \A r \in closers : q <= r
  IN IF p + 1 > Len(s) \/ s[p + 1] \notin OpenMarkers \/ closers = {} THEN 0
     ELSE IF \E k \in (p + 2)..(q0 - 1) : s[k] = "\n" THEN 0
     ELSE q0

\* exec of the wrapped pattern with lastIndex = from
ExecWrapped(s, from) ==
  LET starts == {p \in from..(Len(s) - 1) : WrappedClose(s, p) > 0}
      p0 == CHOOSE p \in starts : \A r \in starts : p <= r
  IN IF starts = {} THEN NoMatch
     ELSE [index |-> p0, end |-> WrappedClose(s, p0),
           sourceId |-> CiteNumber(s[p0 + 1]),
           citedText |-> SubSeq(s, p0 + 2, WrappedClose(s, p0) - 1)]

SetHighlightedText(extracted, i, txt) ==
  [extracted EXCEPT ![i] = [@ EXCEPT !.highlightedText = txt]]

(***************************************************************************)
(* parseWrappedCitations.                                                  *)
(***************************************************************************)
RECURSIVE WrappedLoop(_, _, _, _, _, _)

\* one iteration of the while loop, for the match exec returned
WrappedIteration(cleanText, sources, extracted, lastIndex, segments, references, match) ==
  LET beforeText == Substring(cleanText, lastIndex, match.index)
      segs1 == IF match.index > lastIndex /\ Trim(beforeText) # <<>>
                 THEN Append(segments, PlainSegment(beforeText, lastIndex, match.index))
                 ELSE segments
  IN IF match.sourceId \in DOMAIN sources
       THEN WrappedLoop(cleanText, sources,
                        SetHighlightedText(extracted, sources[match.sourceId],
                                           Trim(match.citedText)),
                        match.end,
                        Append(segs1, HighlightSegment(match.citedText,
                                                       extracted[sources[match.sourceId]].id,
                                                       match.index + 1, match.end - 1)),
                        Append(references,
                               Reference(extracted[sources[match.sourceId]].id,
                                         match.citedText, match.index,
                                         match.index + Len(match.citedText))))
       ELSE WrappedLoop(cleanText, sources, extracted, match.end,
                        Append(segs1, PlainSegment(match.citedText,
                                                   match.index + 1, match.end - 1)),
                        references)

WrappedResult(cleanText, sources, extracted, lastIndex, segments, references, match) ==
  IF match = NoMatch
    THEN [segments |-> segments, references |-> references,
          extracted |-> extracted, lastIndex |-> lastIndex]
    ELSE WrappedIteration(cleanText, sources, extracted, lastIndex, segments,
                          references, match)

WrappedLoop(cleanText, sources, extracted, lastIndex, segments, references) ==
  WrappedResult(cleanText, sources, extracted, lastIndex, segments, references,
                ExecWrapped(cleanText, lastIndex))

\* "Add remaining text", then the write of the extracted list to the global slot
WrappedRemaining(cleanText, loop, remainingText) ==
  [segments |-> IF loop.lastIndex < Len(cleanText) /\ Trim(remainingText) # <<>>
                  THEN Append(loop.segments,
                              PlainSegment(remainingText, loop.lastIndex, Len(cleanText)))
                  ELSE loop.segments,
   references |-> loop.references,
   extracted |-> loop.extracted,
   writesSlot |-> Len(loop.extracted) > 0]

WrappedFrom(cleanText, loop) ==
  WrappedRemaining(cleanText, loop, SubstringFrom(cleanText, loop.lastIndex))

WrappedWith(cleanText, fb) ==
  WrappedFrom(cleanText, WrappedLoop(cleanText, fb.sources, fb.extracted, 0, <<>>, <<>>))

parseWrappedCitations(cleanText, sources0, extracted0) ==
  WrappedWith(cleanText, AddFallbacks(CitationIds(cleanText, {}), extracted0, sources0))

(***************************************************************************)
(* Sentence boundaries.                                                    *)
(***************************************************************************)
\* number of consecutive whitespace symbols of s from offset k on
WsRun(s, k) ==
  Cardinality({n \in 1..(Len(s) - k) : \A j \in 1..n : s[k + j] \in Whitespace})

\* end of the match of /[.!?]\s+/ at offset p, -1 when it does not match there
DelimiterEnd(s, p) ==
  IF p + 2 <= Len(s) /\ s[p + 1] \in SentenceEnd /\ s[p + 2] \in Whitespace
    THEN p + 1 + WsRun(s, p + 1)
    ELSE -1

\* end of the match of /\n\s*[(bullet)\-*]\s*/ at offset p, -1 when it does not match there
BulletEnd(s, p) ==
  LET b == p + 1 + WsRun(s, p + 1)
  IN IF p + 1 <= Len(s) /\ s[p + 1] = "\n" /\ b + 1 <= Len(s) /\ s[b + 1] \in Bullets
       THEN b + 1 + WsRun(s, b + 1)
       ELSE -1

\* end of the match of sentenceMarkers, /[.!?]\s+|^|\n\s*[-*]\s*/, at offset p:
\* the alternatives are tried in order, and ^ matches the empty string at 0
SentenceMarkerEnd(s, p) ==
  IF DelimiterEnd(s, p) >= 0 THEN DelimiterEnd(s, p)
  ELSE IF p = 0 THEN 0
  ELSE BulletEnd(s, p)

\* sentenceMarkers.exec(s) with lastIndex = from: the leftmost match at or after
\* from; exec leaves lastIndex at the end of the match it returns
ExecSentenceMarkers(s, from) ==
  LET starts == {p \in from..Len(s) : SentenceMarkerEnd(s, p) >= 0}
      p0 == CHOOSE p \in starts : \A r \in starts : p <= r
  IN IF starts = {} THEN NoMatch
     ELSE [index |-> p0, end |-> SentenceMarkerEnd(s, p0)]

\* findSentenceStart: the end of the last /[.!?]\s+/ match that ends before fromIndex
findSentenceStart(text, fromIndex) ==
  LET ends == {DelimiterEnd(text, p) : p \in 0..Len(text)} \ {-1}
      before == {e \in ends : e < fromIndex}
  IN IF before = {} THEN 0 ELSE CHOOSE e \in before : \A f \in before : e >= f

extractSentenceBeforeCitation(text, citationIndex) ==
  Trim(Substring(text, findSentenceStart(text, citationIndex), citationIndex))

(***************************************************************************)
(* parseEndOfSentenceCitations: the parts around the backward scan.        *)
(***************************************************************************)
\* citationMatches: one entry per [CITE:n] of cleanText, in order
CitationMatches(cleanText) ==
  LET at == {i \in 1..Len(cleanText) : cleanText[i] \in OpenMarkers}
      nth(k) == CHOOSE i \in at : Cardinality({j \in at : j < i}) = k - 1
  IN [k \in 1..Cardinality(at) |->
        [sourceId |-> CiteNumber(cleanText[nth(k)]), index |-> nth(k) - 1, length |-> 1]]

TextWithoutCitations(cleanText) == RemoveSymbols(cleanText, OpenMarkers)

\* total length of the earlier citation markers that start before offset pos
RemovedBefore(matches, citationIndex, pos) ==
  Cardinality({k \in 1..citationIndex : matches[k].index < pos})

\* the body of the forEach callback after the scan has set sentenceStart
EndOfSentenceBody(cleanText, sources, st, sentenceStart) ==
  LET matches == CitationMatches(cleanText)
      twc == TextWithoutCitations(cleanText)
      cm == matches[st.citationIndex + 1]
      adjustedCitationStart ==
        cm.index - RemovedBefore(matches, st.citationIndex, cm.index)
      adjustedSentenceStart ==
        sentenceStart - RemovedBefore(matches, st.citationIndex, sentenceStart)
      beforeText == Substring(twc, st.processedIndex, adjustedSentenceStart)
      segs1 == IF adjustedSentenceStart > st.processedIndex /\ Trim(beforeText) # <<>>
                 THEN Append(st.segments,
                             PlainSegment(beforeText, st.processedIndex, adjustedSentenceStart))
                 ELSE st.segments
      textToHighlight == Substring(twc, adjustedSentenceStart, adjustedCitationStart)
      hit == cm.sourceId \in DOMAIN sources /\ Trim(textToHighlight) # <<>>
      id == st.extracted[sources[cm.sourceId]].id
  IN [citationIndex |-> st.citationIndex + 1,
      processedIndex |-> adjustedCitationStart,
      segments |-> IF hit
                     THEN Append(segs1, HighlightSegment(textToHighlight, id,
                                                         adjustedSentenceStart,
                                                         adjustedCitationStart))
                     ELSE segs1,
      references |-> IF hit
                       THEN Append(st.references,
                                   Reference(id, Trim(textToHighlight),
                                             adjustedSentenceStart, adjustedCitationStart))
                       ELSE st.references,
      extracted |-> IF hit
                      THEN SetHighlightedText(st.extracted, sources[cm.sourceId],
                                              Trim(textToHighlight))
                      ELSE st.extracted]

\* after the forEach: the remaining text, and the write of the process-wide slot
EndOfSentenceFinish(cleanText, st) ==
  LET twc == TextWithoutCitations(cleanText)
      remainingText == SubstringFrom(twc, st.processedIndex)
  IN [segments |-> IF st.processedIndex < Len(twc) /\ Trim(remainingText) # <<>>
                     THEN Append(st.segments,
                                 PlainSegment(remainingText, st.processedIndex, Len(twc)))
                     ELSE st.segments,
      references |-> st.references,
      extracted |-> st.extracted,
      writesSlot |-> Len(st.extracted) > 0]

(***************************************************************************)
(* The legacy marker pattern on a text kept as one string of characters,   *)
(* /\[Source:\s*([^|]+)\s*\|\s*URL:\s*([^|]+)\s*\|\s*Date:\s*([^|]+)\s*\|   *)
(* \s*Confidence:\s*([^\]]+)\]/g.  The only white space of these texts is    *)
(* the space.                                                              *)
(***************************************************************************)
\* s.trim() of a string
TrimString(s) ==
  LET ink == {i \in 1..Len(s) : SubSeq(s, i, i) # " "}
  IN IF ink = {} THEN ""
     ELSE SubSeq(s, CHOOSE i \in ink : \A j \in ink : i <= j,
                    CHOOSE i \in ink : \A j \in ink : i >= j)

\* the rest of the pattern from offset at on: white space and the field's label,
\* then a group of one character or more up to the next '|' (the next ']' for
\* the last field).  The captured groups come back trimmed, with the offset at
\* which the match ends; NoMatch when a label or a group is missing.
RECURSIVE MatchFields(_, _, _, _)
MatchFields(s, at, labels, groups) ==
  IF labels = <<>> THEN [end |-> at, groups |-> groups]
  ELSE LET label == Head(labels)
           ink == {j \in at..(Len(s) - 1) : SubSeq(s, j + 1, j + 1) # " "}
           b == IF label = "" THEN at
                ELSE IF ink = {} THEN Len(s)
                ELSE CHOOSE j \in ink : \A r \in ink : j <= r
           c == b + Len(label)
           stop == IndexOf(SubstringFrom(s, c), IF Len(labels) = 1 THEN "]" ELSE "|")
       IN IF Substring(s, b, c) # label \/ stop < 1 THEN NoMatch
          ELSE MatchFields(s, c + stop + 1, Tail(labels),
                           Append(groups, TrimString(Substring(s, c, c + stop))))

\* the successive results of pattern.exec(s) from lastIndex = from on
RECURSIVE MarkerMatches(_, _)
MarkerMatches(s, from) ==
  LET starts == {i \in from..(Len(s) - 8) :
                   /\ Substring(s, i, i + 8) = "[Source:"
                   /\ MatchFields(s, i + 8, <<"", "URL:", "Date:", "Confidence:">>, <<>>) # NoMatch}
      index == CHOOSE i \in starts : \A r \in starts : i <= r
      m == MatchFields(s, index + 8, <<"", "URL:", "Date:", "Confidence:">>, <<>>)
  IN IF starts = {} THEN <<>>
     ELSE <<[index |-> index, end |-> m.end, groups |-> m.groups]>> \o MarkerMatches(s, m.end)

\* content.match(/https?:\/\/[^\s)]+/g) from offset from on
RECURSIVE BareUrls(_, _)
BareUrls(s, from) ==
  LET after(i) == IF Substring(s, i, i + 7) = "http://" THEN i + 7
                  ELSE IF Substring(s, i, i + 8) = "https://" THEN i + 8 ELSE -1
      body(j) == j < Len(s) /\ SubSeq(s, j + 1, j + 1) \notin {" ", ")"}
      starts == {i \in from..(Len(s) - 1) : after(i) # -1 /\ body(after(i))}
      index == CHOOSE i \in starts : \A r \in starts : i <= r
      ends == {j \in after(index)..Len(s) : ~body(j)}
      end == CHOOSE j \in ends : \A r \in ends : j <= r
  IN IF starts = {} THEN <<>>
     ELSE <<Substring(s, index, end)>> \o BareUrls(s, end)

\* extractCitationsFromResponse: a citation for every match of the marker
\* pattern; when there is none, an auto-citation for every bare URL
extractCitationsFromResponse(content) ==
  LET matches == MarkerMatches(content, 0)
      urls == BareUrls(content, 0)
      lastStop(index) ==
        LET at == {i \in 0..Min(index, Len(content) - 1) : SubSeq(content, i + 1, i + 1) = "."}
        IN IF at = {} THEN -1 ELSE CHOOSE i \in at : \A j \in at : i >= j
      extractRelevantText(citationMarker) ==
        LET index == IndexOf(content, citationMarker)
            start == Max(0, lastStop(index) + 1)
            stop == IndexOf(SubstringFrom(content, index + Len(citationMarker)), ".")
            end == IF stop > -1 THEN index + Len(citationMarker) + stop ELSE Len(content)
        IN TrimString(Substring(content, start, end))
  IN IF matches # <<>>
       THEN [k \in 1..Len(matches) |->
               ResponseCitation(k, matches[k].groups[1], matches[k].groups[2],
                                matches[k].groups[3], matches[k].groups[4],
                                <<extractRelevantText(Substring(content, matches[k].index,
                                                                matches[k].end))>>)]
       ELSE [k \in 1..Len(urls) |-> AutoCitation(urls[k], k - 1)]

(***************************************************************************)
(* The pipe-delimited marker patterns.  Their first group, [^|]+, runs to  *)
(* the next '|' whatever lies between, so a match that starts at the       *)
(* "[Source:" of a numbered source line ends inside the next symbol that   *)
(* holds a '|'.                                                            *)
(***************************************************************************)
PipeSymbols == LegacyMarkers \cup OldSourceLines
SourcePrefixed == SourceLines \cup PipeSymbols

\* 1-based position of the first symbol with a '|' at or after position k, 0 if none
NextPipeSymbol(s, k) ==
  LET at == {q \in k..Len(s) : s[q] \in PipeSymbols}
  IN IF at = {} THEN 0 ELSE CHOOSE q \in at : \A r \in at : q <= r

\* citationMarkerPattern of parseTextWithMarkers, /\[Source:\s*([^|]+)\s*\|\s*URL:.../:
\* 1-based position of the symbol the match starting at offset p ends with, 0 if none
LegacyMatchLast(s, p) ==
  LET q == NextPipeSymbol(s, p + 1)
  IN IF p + 1 > Len(s) \/ s[p + 1] \notin SourcePrefixed \/ q = 0 THEN 0
     ELSE IF s[q] \in LegacyMarkers THEN q ELSE 0

ExecLegacy(s, from) ==
  LET starts == {p \in from..(Len(s) - 1) : LegacyMatchLast(s, p) > 0}
      p0 == CHOOSE p \in starts : \A r \in starts : p <= r
  IN IF starts = {} THEN NoMatch
     ELSE [index |-> p0, end |-> LegacyMatchLast(s, p0)]

RECURSIVE LegacyMarkersOf(_, _)
LegacyMarkersOf(s, from) ==
  LET m == ExecLegacy(s, from)
  IN IF m = NoMatch THEN <<>> ELSE <<m>> \o LegacyMarkersOf(s, m.end)

\* the text of the symbols s[a..b], as one string
RECURSIVE JoinSymbols(_, _, _)
JoinSymbols(s, a, b) == IF a > b THEN "" ELSE s[a] \o JoinSymbols(s, a + 1, b)

\* what follows "[Source:" (and white space) in a numbered source line
AfterSourcePrefix(t) == "1] T1 - http://x.com (2024-01-01)"
\* what precedes the first '|' of a symbol that holds one, without trailing space
BeforeFirstPipe(t) == IF t \in LegacyMarkers THEN "[Source: T" ELSE "[Source:1"

\* the trimmed first group of a pipe-delimited match over s[m.index + 1 .. m.end]
MarkerTitle(s, m) ==
  IF m.end = m.index + 1
    THEN (IF s[m.end] \in LegacyMarkers THEN LegacyTitle(s[m.end]) ELSE "1")
    ELSE AfterSourcePrefix(s[m.index + 1])
           \o JoinSymbols(s, m.index + 2, m.end - 1) \o BeforeFirstPipe(s[m.end])

(***************************************************************************)
(* parseTextWithMarkers (legacy format).                                   *)
(***************************************************************************)
MarkerCitation(text, m, k) ==
  LegacyFieldsCitation(k, MarkerTitle(text, m), LegacyUrl(text[m.end]),
                       LegacyConfidence(text[m.end]),
                       extractSentenceBeforeCitation(text, m.index))

RECURSIVE MarkersLoop(_, _, _, _, _, _)
MarkersLoop(text, markers, k, currentIndex, segments, references) ==
  IF k > Len(markers)
    THEN [segments |-> IF currentIndex < Len(text)
                         THEN Append(segments, PlainSegment(SubstringFrom(text, currentIndex),
                                                            currentIndex, Len(text)))
                         ELSE segments,
          references |-> references]
    ELSE
      LET marker == markers[k]
          id == "citation-" \o ToString(k)
          sentenceStart == findSentenceStart(text, marker.index)
          segs1 == IF sentenceStart > currentIndex
                     THEN Append(segments,
                                 PlainSegment(Substring(text, currentIndex, sentenceStart),
                                              currentIndex, sentenceStart))
                     ELSE segments
          sentenceEnd == marker.index
          sentenceText == Trim(Substring(text, sentenceStart, sentenceEnd))
          hit == sentenceEnd > sentenceStart /\ sentenceText # <<>>
      IN MarkersLoop(text, markers, k + 1, marker.end,
                     IF hit THEN Append(segs1, HighlightSegment(sentenceText, id,
                                                                sentenceStart, sentenceEnd))
                            ELSE segs1,
                     IF hit THEN Append(references,
                                        Reference(id, sentenceText, sentenceStart, sentenceEnd))
                            ELSE references)

parseTextWithMarkers(text) ==
  LET markers == LegacyMarkersOf(text, 0)
  IN IF Len(markers) > 0
       THEN MarkersLoop(text, markers, 1, 0, <<>>, <<>>)
       ELSE [segments |-> <<>>, references |-> <<>>]

(***************************************************************************)
(* parseTextWithExistingCitations (anchor matching).                       *)
(***************************************************************************)
ContentPrefixLength == 100
AnchorPrefixLength == 50
MinPhraseLength == 15

LowerSymbol(t) == IF t = "A" THEN "a" ELSE t
ToLowerCase(s) == [i \in 1..Len(s) |-> LowerSymbol(s[i])]

\* s.split(/\s+/)
RECURSIVE SplitWhitespace(_)
SplitWhitespace(s) ==
  LET ws == {i \in 1..Len(s) : s[i] \in Whitespace}
      i0 == CHOOSE i \in ws : \A j \in ws : i <= j
  IN IF ws = {} THEN <<s>>
     ELSE <<SubSeq(s, 1, i0 - 1)>>
            \o SplitWhitespace(SubSeq(s, i0 + WsRun(s, i0 - 1), Len(s)))

\* words.slice(i, i + len).join(' ')
RECURSIVE JoinWords(_, _, _)
JoinWords(words, i, len) ==
  IF len = 0 THEN <<>>
  ELSE IF len = 1 THEN words[i + 1]
  ELSE words[i + 1] \o <<" ">> \o JoinWords(words, i + 1, len - 1)

RECURSIVE PhrasesFrom(_, _, _)
PhrasesFrom(words, i, len) ==
  IF i > Len(words) - 3 THEN <<>>
  ELSE IF len > Min(5, Len(words) - i) THEN PhrasesFrom(words, i + 1, 3)
  ELSE (IF Len(JoinWords(words, i, len)) >= MinPhraseLength
          THEN <<JoinWords(words, i, len)>> ELSE <<>>)
         \o PhrasesFrom(words, i, len + 1)

extractKeyPhrases(text) == PhrasesFrom(SplitWhitespace(text), 0, 3)

\* the offset of the first key phrase found in text, -1 when none is
RECURSIVE FirstPhraseIndex(_, _)
FirstPhraseIndex(text, phrases) ==
  IF phrases = <<>> THEN -1
  ELSE IF Len(Head(phrases)) >= MinPhraseLength
          /\ IndexOf(ToLowerCase(text), ToLowerCase(Head(phrases))) # -1
    THEN IndexOf(ToLowerCase(text), ToLowerCase(Head(phrases)))
    ELSE FirstPhraseIndex(text, Tail(phrases))

\* citation.highlightedText || citation.content.substring(0, 100)
AnchorOf(citation) ==
  IF citation.highlightedText # <<>> THEN citation.highlightedText
  ELSE Substring(citation.content, 0, ContentPrefixLength)

MatchIndex(text, highlightText) ==
  LET exact == IndexOf(ToLowerCase(text),
                       Substring(ToLowerCase(highlightText), 0,
                                 Min(AnchorPrefixLength, Len(highlightText))))
  IN IF exact # -1 THEN exact
     ELSE FirstPhraseIndex(text, extractKeyPhrases(highlightText))

RECURSIVE ExistingLoop(_, _, _, _, _)

\* an iteration that gives up the rest of the text when the anchor is not found
ExistingIterationConsuming(text, citations, currentIndex, segments, references, matchIndex, matchEnd) ==
  IF matchIndex # -1 /\ matchIndex >= currentIndex
    THEN ExistingLoop(text, Tail(citations), matchEnd,
                      Append(segments, HighlightSegment(Substring(text, matchIndex, matchEnd),
                                                        Head(citations).id, matchIndex, matchEnd)),
                      Append(references,
                             Reference(Head(citations).id, Substring(text, matchIndex, matchEnd),
                                       matchIndex, matchEnd)))
    ELSE ExistingLoop(text, Tail(citations), Len(text), segments, references)

\* one iteration of citations.forEach, for the matchIndex found for the citation
ExistingIteration(text, citations, currentIndex, segments, references, matchIndex, matchEnd) ==
  IF matchIndex # -1 /\ matchIndex >= currentIndex
    THEN ExistingLoop(text, Tail(citations), matchEnd,
                      Append(IF matchIndex > currentIndex
                               THEN Append(segments,
                                           PlainSegment(Substring(text, currentIndex, matchIndex),
                                                        currentIndex, matchIndex))
                               ELSE segments,
                             HighlightSegment(Substring(text, matchIndex, matchEnd),
                                              Head(citations).id, matchIndex, matchEnd)),
                      Append(references,
                             Reference(Head(citations).id,
                                       Substring(text, matchIndex, matchEnd),
                                       matchIndex, matchEnd)))
    ELSE ExistingLoop(text, Tail(citations), currentIndex, segments, references)

\* a highlight as long as the part of the anchor that was searched for
ExistingMatchPrefix(text, citations, currentIndex, segments, references, highlightText, matchIndex) ==
  ExistingIteration(text, citations, currentIndex, segments, references, matchIndex,
                    Min(matchIndex + Min(AnchorPrefixLength, Len(highlightText)), Len(text)))

ExistingMatch(text, citations, currentIndex, segments, references, highlightText, matchIndex) ==
  ExistingIteration(text, citations, currentIndex, segments, references, matchIndex,
                    Min(matchIndex + Len(highlightText), Len(text)))

ExistingAnchor(text, citations, currentIndex, segments, references, highlightText) ==
  ExistingMatch(text, citations, currentIndex, segments, references, highlightText,
                MatchIndex(text, highlightText))

ExistingLoop(text, citations, currentIndex, segments, references) ==
  IF citations = <<>>
    THEN [segments |-> segments, references |-> references, currentIndex |-> currentIndex]
    ELSE ExistingAnchor(text, citations, currentIndex, segments, references,
                        AnchorOf(Head(citations)))

\* "Add remaining text", and the whole text as one segment when nothing was pushed
ExistingRemaining(text, loop) ==
  [segments |-> IF loop.currentIndex < Len(text)
                  THEN Append(loop.segments,
                              PlainSegment(SubstringFrom(text, loop.currentIndex),
                                           loop.currentIndex, Len(text)))
                  ELSE IF Len(loop.segments) = 0
                    THEN <<PlainSegment(text, 0, Len(text))>>
                    ELSE loop.segments,
   references |-> loop.references]

parseTextWithExistingCitations(text, citations) ==
  ExistingRemaining(text, ExistingLoop(text, citations, 0, <<>>, <<>>))

(***************************************************************************)
(* CitationRenderer: the helpers of a render pass.                         *)
(***************************************************************************)
\* citationMarkerPattern of extractCitationsFromContent,
\* /\[Source:\s*([^|]+)\s*\|\s*([^|]+)\s*\|\s*([^|]+)\s*\|\s*([^\]]+)\]/g
ContentMatchLast(s, p) ==
  IF p + 1 > Len(s) \/ s[p + 1] \notin SourcePrefixed THEN 0
  ELSE NextPipeSymbol(s, p + 1)

ExecContentMarker(s, from) ==
  LET starts == {p \in from..(Len(s) - 1) : ContentMatchLast(s, p) > 0}
      p0 == CHOOSE p \in starts : \A r \in starts : p <= r
  IN IF starts = {} THEN NoMatch
     ELSE [index |-> p0, end |-> ContentMatchLast(s, p0)]

\* urlPart.replace(/^URL:\s*/, '').trim() and confidencePart.replace(/^Confidence:\s*/, '').trim()
ContentUrl(t) == IF t \in LegacyMarkers THEN LegacyUrl(t) ELSE "Title: T1"
ContentConfidence(t) ==
  IF t \in LegacyMarkers THEN LegacyConfidence(t) ELSE "Date: 2024-01-01 | Confidence: High"

ContentCitation(content, m, k) ==
  [id |-> "extracted-" \o ToString(k),
   source |-> MarkerTitle(content, m),
   type |-> determineSourceType(ContentUrl(content[m.end])),
   content |-> <<"Citation from " \o MarkerTitle(content, m)>>,
   relevance |-> parseConfidence(ContentConfidence(content[m.end])),
   url |-> ContentUrl(content[m.end]),
   confidence |-> parseConfidence(ContentConfidence(content[m.end])),
   quality |-> calculateQualityFromUrl(ContentUrl(content[m.end])),
   highlightedText |-> extractSentenceBeforeCitation(content, m.index)]

RECURSIVE ContentCitations(_, _, _)
ContentCitations(content, from, extractedCitations) ==
  LET m == ExecContentMarker(content, from)
  IN IF m = NoMatch THEN extractedCitations
     ELSE ContentCitations(content, m.end,
                           Append(extractedCitations,
                                  ContentCitation(content, m, Len(extractedCitations) + 1)))

\* "Combine with existing citations, avoiding duplicates"
RECURSIVE CombineExisting(_, _)
CombineExisting(allCitations, existingCitations) ==
  IF existingCitations = <<>> THEN allCitations
  ELSE LET existing == Head(existingCitations)
           dup == \E i \in 1..Len(allCitations) :
                     \/ allCitations[i].url = existing.url
                     \/ allCitations[i].source = existing.source
       IN CombineExisting(IF dup THEN allCitations ELSE Append(allCitations, existing),
                          Tail(existingCitations))

extractCitationsFromContent(content, existingCitations) ==
  CombineExisting(ContentCitations(content, 0, <<>>), existingCitations)

\* the demonstration citation of a long content without any citation
TestContentLength == 100
TestSentenceLength == 20
TestHighlightLength == 50

\* the number of characters of a symbol, and content.length
CharLength(t) == IF t = BULLET THEN 1 ELSE Len(t)

RECURSIVE ContentLength(_)
ContentLength(s) == IF s = <<>> THEN 0 ELSE CharLength(Head(s)) + ContentLength(Tail(s))

\* the symbols that hold one of '.', '!', '?', and what precedes it in them
HoldsStop(t) == t \in SentenceEnd \cup SourceLines \cup LegacyMarkers \cup OldSourceLines

BeforeStop(t) ==
  IF t \in SourceLines THEN <<"[Source:1] T1 - http://x">>
  ELSE IF t \in LegacyMarkers THEN <<"[Source: T | URL: https://arxiv">>
  ELSE IF t \in OldSourceLines THEN <<"[Source:1 | Title: T1 | URL: http://x">>
  ELSE <<>>

\* content.split(/[.!?]+/)[0].trim(), as one string
FirstSentenceUpTo(content, stop) ==
  JoinSymbols(Trim(SubSeq(content, 1, stop - 1) \o BeforeStop(content[stop])),
              1, Len(Trim(SubSeq(content, 1, stop - 1) \o BeforeStop(content[stop]))))

FirstSentence(content) ==
  FirstSentenceUpTo(content,
                    CHOOSE i \in 1..Len(content) :
                      HoldsStop(content[i]) /\ \A j \in 1..(i - 1) : ~HoldsStop(content[j]))

TestCitation(firstSentence) ==
  [id |-> "test-citation-1",
   source |-> "Example Source",
   type |-> "web",
   content |-> <<"This is a test citation to demonstrate the tooltip functionality">>,
   relevance |-> 80,
   url |-> "https://example.com",
   confidence |-> 90,
   quality |-> 70,
   highlightedText |-> <<SubSeq(firstSentence, 1, Min(TestHighlightLength, Len(firstSentence)))>>]

\* sentences.length > 1 and the first sentence is longer than twenty characters
TestSentence(allCitations, firstSentence) ==
  IF Len(firstSentence) > TestSentenceLength
    THEN <<TestCitation(firstSentence)>>
    ELSE allCitations

WithTestCitation(allCitations, citations, content) ==
  IF Len(allCitations) = 0 /\ Len(citations) = 0
     /\ ContentLength(content) > TestContentLength
     /\ (\E i \in 1..Len(content) : HoldsStop(content[i]))
    THEN TestSentence(allCitations, FirstSentence(content))
    ELSE allCitations

\* enhanceMarkdownFormatting, on the symbols of the model: the old source
\* references are removed, a list marker at the start of a line becomes a
\* bullet, runs of three or more line breaks become two, and the result is
\* trimmed.  The other replacements match characters ('#', digits, the word
\* "finding", "**") that are not symbols of the model, or rewrite a match to
\* itself.
AtLineStart(s, i) == i = 1 \/ s[i - 1] = "\n"

BulletLines(s) ==
  [i \in 1..Len(s) |->
     IF s[i] \in {"*", "-", "+"} /\ AtLineStart(s, i) /\ i < Len(s) /\ s[i + 1] = " "
       THEN BULLET ELSE s[i]]

RECURSIVE CollapseBreaks(_)
CollapseBreaks(s) ==
  IF Len(s) >= 3 /\ s[1] = "\n" /\ s[2] = "\n" /\ s[3] = "\n"
    THEN CollapseBreaks(Tail(s))
    ELSE IF s = <<>> THEN <<>> ELSE <<Head(s)>> \o CollapseBreaks(Tail(s))

enhanceMarkdownFormatting(content) ==
  Trim(CollapseBreaks(BulletLines(RemoveSymbols(content, OldSourceLines))))

\* HighlightedText: a segment is drawn as a highlight only when it is highlighted,
\* carries a citationId, and getCitationById finds that id in the citations prop
getCitationById(cits, id) == {i \in 1..Len(cits) : cits[i].id = id}

RendersAsHighlight(segment, cits) ==
  /\ segment.isHighlighted
  /\ segment.citationId # Undefined
  /\ getCitationById(cits, segment.citationId) # {}

(***************************************************************************)
(* State.                                                                  *)
(*   pc          "idle", "scan" (inside the backward sentence scan of      *)
(*               parseEndOfSentenceCitations) or "done" (the call returned)*)
(*   caller      who called parseTextWithHighlighting                      *)
(*   text, citations    its arguments                                      *)
(*   cleanText, sources, extracted    locals of parseInlineCitations       *)
(*   citationIndex, lastIndex, sentenceStart, processedIndex               *)
(*               locals of the forEach callback and of its exec loop       *)
(*   segments, references    the result being built, then returned         *)
(*   dialect     the parser whose result was returned                      *)
(*   slot        globalThis.__extractedCitations; only non-empty arrays    *)
(*               are ever stored, <<>> stands for an absent slot           *)
(*   inlineExtractedCitations    the local of that name of a render pass   *)
(* The state of the chat component, by the names of its useState hooks:    *)
(*   messages, currentMessage, isLoading, error ("null" for null),         *)
(*   activeTab, geminiService (FALSE for null), selectedSources            *)
(*   requests                    the calls of GeminiService.sendMessage    *)
(*               made so far, each with the handler that made it and how   *)
(*               far it is: "sent", settled "ok" or "failed", and "done"   *)
(*               once the handler has run its continuation                 *)
(***************************************************************************)
VARIABLES pc, caller, text, citations, cleanText, sources, extracted,
          citationIndex, lastIndex, sentenceStart, processedIndex,
          segments, references, dialect, slot, inlineExtractedCitations,
          applied, input, output,
          messages, currentMessage, isLoading, error, activeTab, geminiService,
          selectedSources, requests

parseVars == <<pc, caller, text, citations, cleanText, sources, extracted,
               citationIndex, lastIndex, sentenceStart, processedIndex,
               segments, references, dialect, slot, inlineExtractedCitations,
               applied, input, output>>

chatVars == <<messages, currentMessage, isLoading, error, activeTab, geminiService,
              selectedSources, requests>>

vars == <<parseVars, chatVars>>

(***************************************************************************)
(* Inputs.                                                                 *)
(***************************************************************************)
SeqsUpTo(S, n) == UNION {[1..k -> S] : k \in 0..n}

Alphabet == {"a", " ", ".", CITE1, CITE2, END1, SRC1, LEGACY}
ContentAlphabet == {"a", " ", ".", CITE1, END1, SRC1, LEGACY}
Texts == SeqsUpTo(Alphabet, MaxLen)
Contents == SeqsUpTo(ContentAlphabet, MaxContentLen)

\* a citation the caller already holds, anchored on the letter "a"
CallerCitation ==
  [id |-> "citation-a",
   source |-> "Known Source",
   type |-> "web",
   content |-> <<"a">>,
   relevance |-> 90,
   url |-> "https://known.example",
   confidence |-> 90,
   quality |-> 70,
   highlightedText |-> <<"a">>]

CitationLists == {<<>>, <<CallerCitation>>}

(***************************************************************************)
(* parseTextWithHighlighting.                                              *)
(***************************************************************************)
\* the first of the three results that has segments, in the order they are tried
FirstWithSegments(inlineCitationResult, markerResult, existingResult) ==
  IF Len(inlineCitationResult.segments) > 0
    THEN [segments |-> inlineCitationResult.segments,
          references |-> inlineCitationResult.references,
          dialect |-> inlineCitationResult.dialect]
    ELSE IF Len(markerResult.segments) > 0
      THEN [segments |-> markerResult.segments,
            references |-> markerResult.references,
            dialect |-> "markers"]
      ELSE [segments |-> existingResult.segments,
            references |-> existingResult.references,
            dialect |-> "existing"]

parseTextWithHighlighting(inlineCitationResult, t, cs) ==
  FirstWithSegments(inlineCitationResult, parseTextWithMarkers(t),
                    parseTextWithExistingCitations(t, cs))

\* a parser without the write of lines 411-413 and 562-564: the slot keeps its value
SlotNeverWritten(inline, slot0) == slot0

\* the value of the slot after a parser that was entered with slot0 in it
SlotAfter(inline, slot0) == IF inline.writesSlot THEN inline.extracted ELSE slot0

\* the call returns result, after a parseInlineCitations that returned inline
ReturnsResult(inline, result, slot0) ==
  /\ pc' = "done"
  /\ segments' = result.segments
  /\ references' = result.references
  /\ dialect' = result.dialect
  /\ extracted' = inline.extracted
  /\ slot' = SlotAfter(inline, slot0)
  /\ sources' = EmptySources
  /\ citationIndex' = 0
  /\ lastIndex' = 0
  /\ sentenceStart' = 0
  /\ processedIndex' = 0

\* parseInlineCitations has returned inline: the call returns
Returns(inline, t, cs, slot0) ==
  ReturnsResult(inline, parseTextWithHighlighting(inline, t, cs), slot0)

\* the "No citations found, return original text" exit of parseEndOfSentenceCitations
NoCitationResult(clean, extractedCitations) ==
  [segments |-> <<PlainSegment(clean, 0, Len(clean))>>,
   references |-> <<>>,
   extracted |-> extractedCitations,
   writesSlot |-> FALSE,
   dialect |-> "endOfSentence"]

\* parseEndOfSentenceCitations up to its early return or to the first scan
EndOfSentenceEntry(t, cs, slot0, clean, fb) ==
  IF Len(CitationMatches(clean)) = 0
    THEN Returns(NoCitationResult(clean, fb.extracted), t, cs, slot0)
    ELSE /\ pc' = "scan"
         /\ sources' = fb.sources
         /\ extracted' = fb.extracted
         /\ citationIndex' = 0
         /\ lastIndex' = 0
         /\ sentenceStart' = 0
         /\ processedIndex' = 0
         /\ segments' = <<>>
         /\ references' = <<>>
         /\ dialect' = "endOfSentence"
         /\ slot' = slot0

\* parseInlineCitations on the sources and the cleaned text it has extracted
parseInlineCitations(t, cs, slot0, src, clean) ==
  /\ text' = t
  /\ citations' = cs
  /\ cleanText' = clean
  /\ IF ExecWrapped(clean, 0) # NoMatch
       THEN Returns([dialect |-> "wrapped"]
                      @@ parseWrappedCitations(clean, src.sources, src.extracted),
                    t, cs, slot0)
       ELSE EndOfSentenceEntry(t, cs, slot0, clean,
                               AddFallbacks(CitationIds(clean, {}),
                                            src.extracted, src.sources))

\* a call parseTextWithHighlighting(t, cs), up to its return or to the first scan
Call(t, cs, slot0) ==
  parseInlineCitations(t, cs, slot0, ExtractSources(t), CleanText(t))

(***************************************************************************)
(* The backward sentence scan of parseEndOfSentenceCitations:              *)
(*   while ((sentenceMatch = sentenceMarkers.exec(textBeforeThisCitation)) *)
(*          !== null) sentenceStart = sentenceMatch.index + length         *)
(***************************************************************************)
TextBeforeThisCitation ==
  Substring(cleanText, 0, CitationMatches(cleanText)[citationIndex + 1].index)

SentenceMatch == ExecSentenceMarkers(TextBeforeThisCitation, lastIndex)

\* one iteration of the loop: exec found a match
SentenceScan ==
  /\ pc = "scan"
  /\ SentenceMatch # NoMatch
  /\ sentenceStart' = SentenceMatch.end
  /\ lastIndex' = SentenceMatch.end
  /\ UNCHANGED <<pc, caller, text, citations, cleanText, sources, extracted,
                 citationIndex, processedIndex, segments, references, dialect,
                 slot, inlineExtractedCitations>>
  /\ UNCHANGED <<applied, input, output>>
  /\ UNCHANGED chatVars

\* the callback has run for one citation: the next citation, or the return
AfterBody(body) ==
  IF body.citationIndex < Len(CitationMatches(cleanText))
    THEN /\ citationIndex' = body.citationIndex
         /\ processedIndex' = body.processedIndex
         /\ segments' = body.segments
         /\ references' = body.references
         /\ extracted' = body.extracted
         /\ lastIndex' = 0
         /\ sentenceStart' = 0
         /\ UNCHANGED <<pc, sources, dialect, slot>>
    ELSE Returns([dialect |-> "endOfSentence"] @@ EndOfSentenceFinish(cleanText, body),
                 text, citations, slot)

\* exec returned null: the rest of the callback, then the next citation or the return
AfterScan ==
  /\ pc = "scan"
  /\ SentenceMatch = NoMatch
  /\ AfterBody(EndOfSentenceBody(cleanText, sources,
                                 [citationIndex |-> citationIndex,
                                  processedIndex |-> processedIndex,
                                  segments |-> segments,
                                  references |-> references,
                                  extracted |-> extracted],
                                 sentenceStart))
  /\ UNCHANGED <<caller, text, citations, cleanText, inlineExtractedCitations>>
  /\ UNCHANGED <<applied, input, output>>
  /\ UNCHANGED chatVars

(***************************************************************************)
(* Callers.                                                                *)
(***************************************************************************)
\* a direct call of the parser in a fresh page (testCitationParsing, the demo)
ParseCall ==
  /\ pc = "idle"
  /\ \E t \in Texts, cs \in CitationLists :
       /\ caller' = "direct"
       /\ inlineExtractedCitations' = <<>>
       /\ Call(t, cs, slot)
  /\ UNCHANGED <<applied, input, output>>
  /\ UNCHANGED chatVars

\* renderMessages of the chat: the parser is called on a message and its citations
MessageParse ==
  /\ pc = "idle"
  /\ \E t \in Contents, cs \in CitationLists :
       /\ caller' = "message"
       /\ inlineExtractedCitations' = <<>>
       /\ Call(t, cs, slot)
  /\ UNCHANGED <<applied, input, output>>
  /\ UNCHANGED chatVars

\* one render pass of CitationRenderer on (content, citations)
RenderPass ==
  /\ pc = "idle"
  /\ \E content \in Contents, props \in CitationLists :
       LET fromContent == extractCitationsFromContent(content, props)
           merged == IF Len(slot) > 0 THEN slot \o fromContent ELSE fromContent
           allCitations == WithTestCitation(merged, props, content)
       IN /\ caller' = "render"
          /\ inlineExtractedCitations' = slot
          /\ Call(enhanceMarkdownFormatting(content), allCitations, <<>>)
  /\ UNCHANGED <<applied, input, output>>
  /\ UNCHANGED chatVars

\* the caller has used the result; the page goes on
Return ==
  /\ pc = "done"
  /\ pc' = "idle"
  /\ caller' = "none"
  /\ text' = <<>>
  /\ citations' = <<>>
  /\ cleanText' = <<>>
  /\ extracted' = <<>>
  /\ segments' = <<>>
  /\ references' = <<>>
  /\ dialect' = "none"
  /\ inlineExtractedCitations' = <<>>
  /\ UNCHANGED <<sources, citationIndex, lastIndex, sentenceStart, processedIndex, slot>>
  /\ UNCHANGED <<applied, input, output>>
  /\ UNCHANGED chatVars

(***************************************************************************)
(* The parsing modes, each on its own.  parseTextWithHighlighting of the   *)
(* first version of the file (lines 13-86) is the anchor-matching mode     *)
(* itself; parseTextWithMarkers is the second parser of the current one.   *)
(***************************************************************************)
ModeTexts == SeqsUpTo(Alphabet, MaxModeLen)

\* the call returns the result of a mode other than the inline one
ModeReturns(t, cs, result, mode) ==
  /\ pc' = "done"
  /\ caller' = "direct"
  /\ text' = t
  /\ citations' = cs
  /\ cleanText' = t
  /\ segments' = result.segments
  /\ references' = result.references
  /\ dialect' = mode
  /\ extracted' = <<>>
  /\ UNCHANGED <<sources, citationIndex, lastIndex, sentenceStart, processedIndex,
                 slot, inlineExtractedCitations>>

\* parseInlineCitations, through the public function
InlineCall ==
  /\ pc = "idle"
  /\ \E t \in ModeTexts, cs \in CitationLists :
       /\ caller' = "direct"
       /\ inlineExtractedCitations' = <<>>
       /\ Call(t, cs, slot)
  /\ UNCHANGED <<applied, input, output>>
  /\ UNCHANGED chatVars

MarkersCall ==
  /\ pc = "idle"
  /\ \E t \in ModeTexts : ModeReturns(t, <<>>, parseTextWithMarkers(t), "markers")
  /\ UNCHANGED <<applied, input, output>>
  /\ UNCHANGED chatVars

ExistingCall ==
  /\ pc = "idle"
  /\ \E t \in ModeTexts, cs \in CitationLists :
       ModeReturns(t, cs, parseTextWithExistingCitations(t, cs), "existing")
  /\ UNCHANGED <<applied, input, output>>
  /\ UNCHANGED chatVars

(***************************************************************************)
(* Helper functions applied on their own, once, to arguments of a fresh    *)
(* page.                                                                   *)
(***************************************************************************)
\* the function has returned
Applies(name, arguments, returned) ==
  /\ applied' = name
  /\ input' = arguments
  /\ output' = returned
  /\ UNCHANGED <<pc, caller, text, citations, cleanText, sources, extracted,
                 citationIndex, lastIndex, sentenceStart, processedIndex,
                 segments, references, dialect, slot, inlineExtractedCitations>>
  /\ UNCHANGED chatVars

\* every builder on the same captured fields: the citation of a numbered source
\* line, of a legacy marker in the parser and in the API client, the placeholder
\* of an unmatched [CITE:1], and the auto-citation of the URL when
\* /https?:\/\/[^\s)]+/ matches it
BuildCitations ==
  /\ pc = "idle"
  /\ applied = "none"
  /\ \E title \in {"T", "Nature Article"},
        url \in {"http://x.com", "https://arxiv.org/abs/1", "https://arxiv.org/pdf/1.pdf",
                 "https://youtube.com/a.pdf", "https://spotify.com/a.png", "https://docs.x.org/a.jpg",
                 "https://www.mit.edu/a", "https://en.wikipedia.org/wiki/A", "https://nature.com/a",
                 "https://data.gov/arxiv.org/ibm.com", "n/a", ""},
        confidence \in {"High", "HIGH", "high", "Medium", "mEDIUM", "Low", "low",
                        "bogus", "Highest", ""} :
       Applies("build", [title |-> title, url |-> url, confidence |-> confidence],
               [sourceLine |-> SourceFieldsCitation("1", title, url),
                legacy |-> LegacyFieldsCitation(1, title, url, confidence, <<>>),
                response |-> ResponseCitation(1, title, url, "2024-01-01", confidence, <<>>),
                placeholder |-> FallbackCitation("1"),
                auto |-> IF Substring(url, 0, 7) = "http://" \/ Substring(url, 0, 8) = "https://"
                           THEN <<AutoCitation(url, 0)>> ELSE <<>>])

(***************************************************************************)
(* filterAndRankCitations.                                                 *)
(***************************************************************************)
MaxRankLen == 3

\* the band of relevance differences within which quality decides, in hundredths
RelevanceBand == 5

\* (citation.quality || 0): quality is an optional field
QualityOf(citation) == IF "quality" \in DOMAIN citation THEN citation.quality ELSE 0

\* the comparator given to sort: negative when a goes first
compareCitations(a, b) ==
  IF b.relevance - a.relevance > RelevanceBand \/ a.relevance - b.relevance > RelevanceBand
    THEN b.relevance - a.relevance
    ELSE QualityOf(b) - QualityOf(a)

\* Array.prototype.sort.  On a list for which the comparator is consistent (its
\* "equal" and "before" relations are transitive) the result is the one stable
\* sorted order; otherwise ECMAScript leaves the order to the implementation and
\* every permutation of the list is a possible result.
SortOutcomes(list) ==
  LET n == Len(list)
      c(i, j) == compareCitations(list[i], list[j])
      consistent ==
        \A i, j, k \in 1..n :
          /\ (c(i, j) = 0 /\ c(j, k) = 0) => c(i, k) = 0
          /\ (c(i, j) < 0 /\ c(j, k) < 0) => c(i, k) < 0
          /\ (c(i, j) < 0 /\ c(j, k) = 0) => c(i, k) < 0
          /\ (c(i, j) = 0 /\ c(j, k) < 0) => c(i, k) < 0
      perms == {p \in [1..n -> 1..n] : \A i, j \in 1..n : p[i] = p[j] => i = j}
      stable(p) == \A i, j \in 1..n :
                     i < j => (c(p[i], p[j]) < 0 \/ (c(p[i], p[j]) = 0 /\ p[i] < p[j]))
  IN {[i \in 1..n |-> list[p[i]]] : p \in {q \in perms : ~consistent \/ stable(q)}}

\* filter and sort without the slice
RankUntruncated(cs, minQuality, maxCitations) ==
  SortOutcomes(SelectSeq(cs, LAMBDA citation : QualityOf(citation) >= minQuality))

\* the possible results of filterAndRankCitations(cs, minQuality, maxCitations)
filterAndRankCitations(cs, minQuality, maxCitations) ==
  {SubSeq(sorted, 1, Min(maxCitations, Len(sorted))) :
     sorted \in SortOutcomes(SelectSeq(cs, LAMBDA citation : QualityOf(citation) >= minQuality))}

\* the citations to rank: three whose relevances lie 0.04 apart with rising
\* quality, one far below them, one without a quality
RankCitations ==
  /\ pc = "idle"
  /\ applied = "none"
  /\ \E cs \in SeqsUpTo({[id |-> "a", relevance |-> 90, quality |-> 50],
                         [id |-> "b", relevance |-> 86, quality |-> 60],
                         [id |-> "c", relevance |-> 82, quality |-> 70],
                         [id |-> "d", relevance |-> 60, quality |-> 100],
                         [id |-> "e", relevance |-> 90]}, MaxRankLen),
        minQuality \in {0, 30, 60},
        maxCitations \in 0..MaxRankLen :
       \E ranked \in filterAndRankCitations(cs, minQuality, maxCitations) :
         Applies("rank", [citations |-> cs, minQuality |-> minQuality, maxCitations |-> maxCitations],
                 ranked)

\* extractCitationsFromContent of the renderer, on its own
\* The existing citations: the known one, one with the source name of the legacy
\* marker, one with its URL, two without any URL.
ExtractFromContent ==
  /\ pc = "idle"
  /\ applied = "none"
  /\ \E content \in SeqsUpTo({"a", ".", LEGACY}, MaxContentLen),
        existing \in SeqsUpTo({CallerCitation,
                               [CallerCitation EXCEPT !.id = "same-source", !.source = LegacyTitle(LEGACY), !.url = "http://x.com"],
                               [CallerCitation EXCEPT !.id = "same-url", !.source = "Preprint", !.url = LegacyUrl(LEGACY)],
                               [CallerCitation EXCEPT !.id = "book-a", !.source = "Book A", !.url = Undefined],
                               [CallerCitation EXCEPT !.id = "book-b", !.source = "Book B", !.url = Undefined]}, 2) :
       Applies("extract", [content |-> content, existingCitations |-> existing],
               extractCitationsFromContent(content, existing))

\* markers with a field that is missing, empty or unreadable
MalformedMarkers ==
  {"[Source: T | Date: 2024-01-01 | Confidence: High]",
   "[Source: T | URL: | Date: 2024-01-01 | Confidence: High]",
   "[Source: T | URL: http://x.com | Date: soon | Confidence: High]"}

MaxPieces == 3

\* extractCitationsFromResponse on a response made of markers, whole or
\* malformed, and of prose; parseTextWithMarkers builds one citation for every
\* match of the same pattern
ExtractFromResponse ==
  /\ pc = "idle"
  /\ applied = "none"
  /\ \E pieces \in SeqsUpTo({LEGACY, "See (https://www.mit.edu/a) now. ", "So it is. "}
                             \cup MalformedMarkers, MaxPieces) :
       Applies("response", pieces,
               [citations |-> extractCitationsFromResponse(JoinSymbols(pieces, 1, Len(pieces))),
                markers |-> MarkerMatches(JoinSymbols(pieces, 1, Len(pieces)), 0)])

\* a string as the text of its characters
Chars(str) == [i \in 1..Len(str) |-> SubSeq(str, i, i)]

\* parseTextWithExistingCitations on texts and anchors long enough for the
\* 50-character prefix and for key phrases of 15 characters
MatchExisting ==
  /\ pc = "idle"
  /\ applied = "none"
  /\ \E str \in {"Aa bb aa", "bb. cc", "see one two three four.",
                  "so the quick brown fox jumps over the lazy dog near town.",
                  "the quick brown fox jumps over the lazy dog near the river bank, see"},
        anchors \in SeqsUpTo({"aa", "bb", "zz", "zz one two three four",
                              "the quick brown fox jumps over the lazy dog near the river bank"}, 2) :
       Applies("existing",
               [text |-> Chars(str),
                citations |-> [k \in 1..Len(anchors) |->
                                 [CallerCitation EXCEPT !.id = "citation-" \o ToString(k),
                                                        !.highlightedText = Chars(anchors[k])]]],
               parseTextWithExistingCitations(
                 Chars(str),
                 [k \in 1..Len(anchors) |->
                    [CallerCitation EXCEPT !.id = "citation-" \o ToString(k),
                                           !.highlightedText = Chars(anchors[k])]]))

\* content.replace(/\[Source:[^\]]+\]/g, ''): a token is "[Source:", one
\* character or more other than "]", and the first "]" that follows
RECURSIVE StripSourceTokens(_)
StripSourceTokens(s) ==
  LET closer(i) == CHOOSE c \in (i + 8)..Len(s) :
                     /\ SubSeq(s, c, c) = "]"
                     /\ \A d \in (i + 8)..(c - 1) : SubSeq(s, d, d) # "]"
      tokens == {i \in 1..(Len(s) - 9) :
                   /\ SubSeq(s, i, i + 7) = "[Source:"
                   /\ SubSeq(s, i + 8, i + 8) # "]"
                   /\ \E c \in (i + 9)..Len(s) : SubSeq(s, c, c) = "]"}
      first == CHOOSE i \in tokens : \A j \in tokens : i <= j
  IN IF tokens = {} THEN s
     ELSE SubSeq(s, 1, first - 1) \o StripSourceTokens(SubSeq(s, closer(first) + 1, Len(s)))

\* .replace(/\n\n+/g, '\n\n')
RECURSIVE CollapseBlankLines(_)
CollapseBlankLines(s) ==
  LET runs == {i \in 1..(Len(s) - 2) : SubSeq(s, i, i + 2) = "\n\n\n"}
      first == CHOOSE i \in runs : \A j \in runs : i <= j
  IN IF runs = {} THEN s
     ELSE CollapseBlankLines(SubSeq(s, 1, first - 1) \o SubSeq(s, first + 1, Len(s)))

\* cleanResponseContent: the two replacements, then trim()
cleanResponseContent(content) ==
  LET s == CollapseBlankLines(StripSourceTokens(content))
      ink == {i \in 1..Len(s) : SubSeq(s, i, i) \notin {" ", "\n"}}
  IN IF ink = {} THEN ""
     ELSE SubSeq(s, CHOOSE i \in ink : \A j \in ink : i <= j,
                    CHOOSE i \in ink : \A j \in ink : i >= j)

\* the marker or source line that str holds at position i, "" when it holds none
SymbolAt(str, i) ==
  LET heads == {m \in OpenMarkers \cup CloseMarkers \cup SourceLines
                       \cup OldSourceLines \cup LegacyMarkers :
                  i + Len(m) - 1 <= Len(str) /\ SubSeq(str, i, i + Len(m) - 1) = m}
  IN IF heads = {} THEN "" ELSE CHOOSE m \in heads : TRUE

\* a string as the text the parser reads: its markers and source lines as
\* symbols, every other character on its own
RECURSIVE Symbols(_)
Symbols(str) ==
  LET at == {i \in 1..Len(str) : SymbolAt(str, i) # ""}
      first == CHOOSE i \in at : \A j \in at : i <= j
  IN IF at = {} THEN Chars(str)
     ELSE Chars(SubSeq(str, 1, first - 1)) \o <<SymbolAt(str, first)>>
            \o Symbols(SubSeq(str, first + Len(SymbolAt(str, first)), Len(str)))

\* the citations parseInlineCitations extracts from a text: those of its source
\* lines, then a placeholder for every other number of a [CITE:n] marker
InlineExtracted(t) ==
  AddFallbacks(CitationIds(CleanText(t), {}), ExtractSources(t).extracted,
               ExtractSources(t).sources).extracted

\* parseGeminiResponse on the text of a response, and the parse of the content
\* it returns when the chat renders the message
parseGeminiResponse ==
  /\ pc = "idle"
  /\ applied = "none"
  /\ \E pieces \in SeqsUpTo({CITE1, "a", "\n", SRC1, LEGACY, "[Source:", "]"}, MaxPieces) :
       Applies("reply", JoinSymbols(pieces, 1, Len(pieces)),
               [content |-> cleanResponseContent(JoinSymbols(pieces, 1, Len(pieces))),
                extracted |-> InlineExtracted(
                                Symbols(cleanResponseContent(
                                          JoinSymbols(pieces, 1, Len(pieces)))))])

(***************************************************************************)
(* The chat component (CitationDemo) and the requests of its service.      *)
(***************************************************************************)
MaxRequests == 4     \* most calls of sendMessage in one run

\* the requests of a handler that have not run their continuation yet
InFlight(kind) ==
  {i \in 1..Len(requests) : requests[i].kind = kind /\ requests[i].state # "done"}

\* initializeGeminiService through handleApiKeySubmit, or on mount with a saved key
handleApiKeySubmit ==
  /\ \E apiKey \in {" ", "key"} :
       IF TrimString(apiKey) = ""
         THEN /\ error' = "Please enter a valid Gemini API key"
              /\ UNCHANGED geminiService
         ELSE /\ geminiService' = TRUE
              /\ error' = "null"
  /\ UNCHANGED <<messages, currentMessage, isLoading, activeTab, selectedSources, requests>>
  /\ UNCHANGED parseVars

\* onChange of the textarea, which is disabled while loading or without a
\* service, and onClick of a suggestion, shown while there is no message
setCurrentMessage ==
  /\ \E value \in {"", " ", "q"} :
       /\ \/ ~isLoading /\ geminiService
          \/ messages = <<>> /\ value = "q"
       /\ currentMessage' = value
  /\ UNCHANGED <<messages, isLoading, error, activeTab, geminiService, selectedSources,
                 requests>>
  /\ UNCHANGED parseVars

\* handleSendMessage up to its await, without the test of isLoading
handleSendMessageUnguarded ==
  /\ TrimString(currentMessage) # ""
  /\ geminiService
  /\ Len(requests) < MaxRequests
  /\ messages' = Append(messages, [role |-> "user", content |-> TrimString(currentMessage)])
  /\ currentMessage' = ""
  /\ isLoading' = TRUE
  /\ error' = "null"
  /\ requests' = Append(requests, [kind |-> "chat", state |-> "sent", citations |-> 0])
  /\ UNCHANGED <<activeTab, geminiService, selectedSources>>
  /\ UNCHANGED parseVars

\* handleSendMessage up to its await
handleSendMessage ==
  /\ TrimString(currentMessage) # ""
  /\ geminiService
  /\ ~isLoading
  /\ Len(requests) < MaxRequests
  /\ messages' = Append(messages, [role |-> "user", content |-> TrimString(currentMessage)])
  /\ currentMessage' = ""
  /\ isLoading' = TRUE
  /\ error' = "null"
  /\ requests' = Append(requests, [kind |-> "chat", state |-> "sent", citations |-> 0])
  /\ UNCHANGED <<activeTab, geminiService, selectedSources>>
  /\ UNCHANGED parseVars

\* handleSourceSearch up to its await
handleSourceSearch ==
  /\ geminiService
  /\ Len(requests) < MaxRequests
  /\ isLoading' = TRUE
  /\ requests' = Append(requests, [kind |-> "search", state |-> "sent", citations |-> 0])
  /\ UNCHANGED <<messages, currentMessage, error, activeTab, geminiService, selectedSources>>
  /\ UNCHANGED parseVars

\* GeminiService.sendMessage settles: it returns the parsed response, or fetch
\* threw or the status was not OK and it throws; it makes no second fetch
sendMessage ==
  /\ \E i \in 1..Len(requests), outcome \in {"ok", "failed"}, found \in {0, 1} :
       /\ requests[i].state = "sent"
       /\ requests' = [requests EXCEPT ![i] =
                         [@ EXCEPT !.state = outcome,
                                   !.citations = IF outcome = "ok" THEN found ELSE 0]]
  /\ UNCHANGED <<messages, currentMessage, isLoading, error, activeTab, geminiService,
                 selectedSources>>
  /\ UNCHANGED parseVars

\* the try block of handleSendMessage after the await, then finally
SendResolves ==
  /\ \E i \in InFlight("chat") :
       /\ requests[i].state = "ok"
       /\ messages' = Append(messages, [role |-> "assistant",
                                        content |-> "response",
                                        citations |-> requests[i].citations])
       /\ activeTab' = IF requests[i].citations > 0 THEN "sources" ELSE activeTab
       /\ isLoading' = FALSE
       /\ requests' = [requests EXCEPT ![i].state = "done"]
  /\ UNCHANGED <<currentMessage, error, geminiService, selectedSources>>
  /\ UNCHANGED parseVars

\* a catch block that sends the message again
SendRejectsRetrying ==
  /\ \E i \in InFlight("chat") :
       /\ requests[i].state = "failed"
       /\ error' = "Failed to get AI response"
       /\ requests' = [requests EXCEPT ![i].state = "sent"]
  /\ UNCHANGED <<messages, currentMessage, isLoading, activeTab, geminiService,
                 selectedSources>>
  /\ UNCHANGED parseVars

\* the catch block of handleSendMessage, then finally
SendRejects ==
  /\ \E i \in InFlight("chat") :
       /\ requests[i].state = "failed"
       /\ error' = "Failed to get AI response"
       /\ isLoading' = FALSE
       /\ requests' = [requests EXCEPT ![i].state = "done"]
  /\ UNCHANGED <<messages, currentMessage, activeTab, geminiService, selectedSources>>
  /\ UNCHANGED parseVars

\* the try block of handleSourceSearch after the await, then finally
SearchResolves ==
  /\ \E i \in InFlight("search") :
       /\ requests[i].state = "ok"
       /\ selectedSources' = "found"
       /\ activeTab' = "search"
       /\ isLoading' = FALSE
       /\ requests' = [requests EXCEPT ![i].state = "done"]
  /\ UNCHANGED <<messages, currentMessage, error, geminiService>>
  /\ UNCHANGED parseVars

\* the catch block of handleSourceSearch, then finally
SearchRejects ==
  /\ \E i \in InFlight("search") :
       /\ requests[i].state = "failed"
       /\ error' = "Failed to search sources"
       /\ isLoading' = FALSE
       /\ requests' = [requests EXCEPT ![i].state = "done"]
  /\ UNCHANGED <<messages, currentMessage, activeTab, geminiService, selectedSources>>
  /\ UNCHANGED parseVars

\* the button of the error banner
DismissError ==
  /\ error # "null"
  /\ error' = "null"
  /\ UNCHANGED <<messages, currentMessage, isLoading, activeTab, geminiService,
                 selectedSources, requests>>
  /\ UNCHANGED parseVars

Init ==
  /\ pc = "idle"
  /\ caller = "none"
  /\ text = <<>>
  /\ citations = <<>>
  /\ cleanText = <<>>
  /\ sources = EmptySources
  /\ extracted = <<>>
  /\ citationIndex = 0
  /\ lastIndex = 0
  /\ sentenceStart = 0
  /\ processedIndex = 0
  /\ segments = <<>>
  /\ references = <<>>
  /\ dialect = "none"
  /\ slot = <<>>
  /\ inlineExtractedCitations = <<>>
  /\ applied = "none"
  /\ input = <<>>
  /\ output = <<>>
  /\ messages = <<>>
  /\ currentMessage = ""
  /\ isLoading = FALSE
  /\ error = "null"
  /\ activeTab = "sources"
  /\ geminiService = FALSE
  /\ selectedSources = "null"
  /\ requests = <<>>

\* one direct call of the parser
Next == ParseCall \/ SentenceScan \/ AfterScan
Spec == Init /\ [][Next]_vars

\* one call of one parsing mode
ModesNext == InlineCall \/ MarkersCall \/ ExistingCall \/ SentenceScan \/ AfterScan
ModesSpec == Init /\ [][ModesNext]_vars

\* the modes with a scan loop that keeps running: the while loop of the callback
\* executes its next iteration, or leaves, whenever it can
ScanSpec == ModesSpec /\ WF_vars(SentenceScan) /\ WF_vars(AfterScan)

\* a page that renders contents and messages one after the other
RenderNext == RenderPass \/ MessageParse \/ SentenceScan \/ AfterScan \/ Return
RenderSpec == Init /\ [][RenderNext]_vars

\* one helper function applied once
FunctionsNext ==
  BuildCitations \/ RankCitations \/ ExtractFromContent \/ ExtractFromResponse \/ MatchExisting
    \/ parseGeminiResponse
FunctionsSpec == Init /\ [][FunctionsNext]_vars

\* the chat component: its handlers, their continuations and the service
ChatNext ==
  \/ handleApiKeySubmit
  \/ setCurrentMessage
  \/ handleSendMessage
  \/ handleSourceSearch
  \/ sendMessage
  \/ SendResolves
  \/ SendRejects
  \/ SearchResolves
  \/ SearchRejects
  \/ DismissError
ChatSpec == Init /\ [][ChatNext]_vars

(***************************************************************************)
(* Properties.                                                             *)
(***************************************************************************)
CiteMarkers == OpenMarkers \cup CloseMarkers
MarkerSymbols == CiteMarkers \cup SourceLines \cup OldSourceLines \cup LegacyMarkers

HasCite(s) == \E i \in 1..Len(s) : s[i] \in OpenMarkers
NoMarkers(s) == \A i \in 1..Len(s) : s[i] \notin MarkerSymbols

\* the texts of the returned segments, concatenated in order
SegmentsText == Concat([i \in 1..Len(segments) |-> segments[i].text])

\* C1 (losslessness): when the call has returned, the segment texts concatenated
\* in order are the text the segmenter processed -- the input text in anchor
\* mode; the cleaned text without its [CITE:n] and [/CITE:n] markers in wrapped
\* and end-of-sentence mode -- with nothing dropped and nothing duplicated.
C1_Lossless ==
  pc = "done" =>
    IF dialect \in {"wrapped", "endOfSentence"}
      THEN RemoveSymbols(SegmentsText, CiteMarkers) = RemoveSymbols(cleanText, CiteMarkers)
      ELSE SegmentsText = text

\* C2 (left to right, no overlap): when the call has returned, every segment's
\* span starts at or after the end of the span of the segment before it.
C2_NoOverlap ==
  pc = "done" =>
    \A i \in 1..(Len(segments) - 1) : segments[i].end <= segments[i + 1].start

\* C3 (termination with an answer): a call that has returned holds at least one
\* segment, and the backward sentence scan terminates: every match that
\* sentenceMarkers.exec returns ends after the lastIndex it was started from (exec
\* is a function of the text and lastIndex alone, so a match that leaves
\* lastIndex where it was is returned again by every later iteration).
C3_Terminates ==
  /\ pc = "done" => Len(segments) >= 1
  /\ pc = "scan" /\ SentenceMatch # NoMatch => SentenceMatch.end > lastIndex

\* C4 (highlights resolve): in a render pass, every highlighted segment the parse
\* returned carries the id of a citation of the list the pass hands to
\* HighlightedText, so the span is drawn as a highlight.
C4_HighlightsResolve ==
  pc = "done" /\ caller = "render" =>
    \A i \in 1..Len(segments) :
      segments[i].isHighlighted => RendersAsHighlight(segments[i], citations)

\* C5 (anchor fallback): for a text without citation markers and a citation list
\* whose first citation's anchor occurs in the text, the call returns through the
\* anchor-matching fallback: the matched span is a highlighted segment with that
\* citation's id, and the text before it, if any, is the plain segment before it.
C5_AnchorFallback ==
  pc = "done" /\ NoMarkers(text) /\ citations # <<>>
      /\ MatchIndex(text, AnchorOf(citations[1])) # -1 =>
    /\ dialect = "existing"
    /\ \E k \in 1..Len(segments) :
         /\ segments[k].isHighlighted
         /\ segments[k].citationId = citations[1].id
         /\ segments[k].start = MatchIndex(text, AnchorOf(citations[1]))
         /\ segments[k].text =
              Substring(text, segments[k].start,
                        Min(segments[k].start + Len(AnchorOf(citations[1])), Len(text)))
         /\ segments[k].start > 0 =>
              /\ k > 1
              /\ ~segments[k - 1].isHighlighted
              /\ segments[k - 1].text = Substring(text, 0, segments[k].start)

\* C6 (no markers): for a text without citation markers the call returns exactly
\* one segment, not highlighted and without citationId, whose text is the whole
\* input text, leading and trailing white space included.
C6_PlainWhole ==
  pc = "done" /\ NoMarkers(text) =>
    /\ Len(segments) = 1
    /\ ~segments[1].isHighlighted
    /\ segments[1].citationId = Undefined
    /\ segments[1].text = text

\* the text holds a legacy pipe-delimited marker
HasLegacy(s) == \E i \in 1..Len(s) : s[i] \in LegacyMarkers
\* the legacy markers are the only markers of the text
OnlyLegacy(s) ==
  HasLegacy(s) /\ \A i \in 1..Len(s) : s[i] \in MarkerSymbols => s[i] \in LegacyMarkers

\* C7 (dialect order): a text whose only markers are legacy pipe-delimited
\* markers is parsed by the legacy dialect (the result is the one of
\* parseTextWithMarkers), and the bare [CITE:n] dialect decides the parse only
\* when neither a wrapped span nor a legacy marker is in the text.
C7_DialectOrder ==
  pc = "done" =>
    /\ OnlyLegacy(text) =>
         /\ dialect = "markers"
         /\ segments = parseTextWithMarkers(text).segments
    /\ dialect = "endOfSentence" /\ HasCite(cleanText) => ~HasLegacy(text)

\* the wrapped spans of s: an opening marker, a closing marker with the same
\* number after it, and no citation marker between the two
WrappedSpans(s) ==
  {sp \in (1..Len(s)) \X (1..Len(s)) :
     /\ sp[1] < sp[2]
     /\ s[sp[1]] \in OpenMarkers
     /\ s[sp[2]] \in CloseMarkers
     /\ CiteNumber(s[sp[1]]) = CiteNumber(s[sp[2]])
     /\ \A k \in (sp[1] + 1)..(sp[2] - 1) : s[k] \notin CiteMarkers}

\* segment i is the highlight of the span sp of the cleaned text
HighlightOf(i, sp) ==
  /\ segments[i].isHighlighted
  /\ segments[i].start = sp[1]
  /\ segments[i].end = sp[2] - 1
  /\ segments[i].text = SubSeq(cleanText, sp[1] + 1, sp[2] - 1)
  /\ segments[i].citationId = "inline-citation-" \o CiteNumber(cleanText[sp[1]])

\* C8 (wrapped round trip): when the wrapped dialect decided the parse, every
\* [CITE:n]text[/CITE:n] span has exactly one highlighted segment, with exactly
\* its text and the id of the citation numbered n (whose url is the one of the
\* [Source:n] line when the text has one); every highlighted segment is the one
\* of a span; and no source line is part of a segment.
C8_WrappedRoundTrip ==
  pc = "done" /\ dialect = "wrapped" =>
    /\ \A sp \in WrappedSpans(cleanText) :
         /\ Cardinality({i \in 1..Len(segments) : HighlightOf(i, sp)}) = 1
         /\ \A j \in 1..Len(text) :
              text[j] \in SourceLines /\ SourceNumber(text[j]) = CiteNumber(cleanText[sp[1]]) =>
                \E c \in 1..Len(extracted) :
                  /\ extracted[c].id = "inline-citation-" \o CiteNumber(cleanText[sp[1]])
                  /\ extracted[c].url = SourceUrl(text[j])
    /\ \A i \in 1..Len(segments) :
         segments[i].isHighlighted => \E sp \in WrappedSpans(cleanText) : HighlightOf(i, sp)
    /\ \A i \in 1..Len(segments) : \A k \in 1..Len(segments[i].text) :
         segments[i].text[k] \notin SourceLines \cup OldSourceLines

\* C9 (ownership): in a render pass, every inline citation merged into the pass's
\* citation list is a citation the parse of the pass's own content extracts.
C9_OwnedByPass ==
  pc = "done" /\ caller = "render" =>
    \A i \in 1..Len(inlineExtractedCitations) :
      \E j \in 1..Len(extracted) : extracted[j] = inlineExtractedCitations[i]

\* the slot as the parser finds it in a step that enters it: a render pass has
\* read and deleted the slot before it calls the parser
SlotAtEntry == IF pc = "idle" /\ caller' = "render" THEN <<>> ELSE slot

C11_IdIffHighlighted ==
  pc = "done" =>
    \A i \in 1..Len(segments) :
      segments[i].citationId # Undefined <=> segments[i].isHighlighted

\* the legacy mode has returned a highlighted segment and a plain one
C11_BothKinds ==
  /\ pc = "done"
  /\ dialect = "markers"
  /\ \E i \in 1..Len(segments) : segments[i].isHighlighted
  /\ \E i \in 1..Len(segments) : ~segments[i].isHighlighted

\* the citations one application of the builders returned
BuiltList ==
  <<output.sourceLine, output.legacy, output.response, output.placeholder>> \o output.auto

IsScore(x) == x \in 0..100

\* C12 (scores in range): relevance, confidence and quality of every citation a
\* builder produces -- numbered source line, legacy marker, placeholder, URL
\* auto-citation -- lie in [0, 1] (0..100 hundredths), whatever the URL and the
\* confidence label.
C12_ScoresInRange ==
  applied = "build" =>
    \A i \in 1..Len(BuiltList) :
      /\ IsScore(BuiltList[i].relevance)
      /\ IsScore(BuiltList[i].confidence)
      /\ IsScore(BuiltList[i].quality)

\* the URL that earns every bonus was scored, with an unrecognised label, and the
\* quality was clamped to 1
C12_Clamped ==
  /\ applied = "build"
  /\ input.url = "https://data.gov/arxiv.org/ibm.com"
  /\ input.confidence = "bogus"
  /\ output.legacy.quality = 100
  /\ Len(output.auto) = 1

HighLabels == {"High", "HIGH", "high"}
MediumLabels == {"Medium", "mEDIUM"}
LowLabels == {"Low", "low"}

\* the value the fixed mapping gives a label
MappedLabel(label) ==
  IF label \in HighLabels THEN 90
  ELSE IF label \in MediumLabels THEN 70
  ELSE IF label \in LowLabels THEN 50
  ELSE 60

\* C13 (label mapping): the relevance and the confidence of the citation built
\* from a marker are the fixed mapping of its label, applied case-insensitively
\* (high 0.9, medium 0.7, low 0.5, anything else 0.6), and equal to each other.
C13_LabelMapping ==
  applied = "build" =>
    /\ output.legacy.relevance = MappedLabel(input.confidence)
    /\ output.legacy.confidence = output.legacy.relevance
    /\ output.response.relevance = MappedLabel(input.confidence)
    /\ output.response.confidence = output.response.relevance

\* a label in capitals was mapped to 0.9 by the parser and by the API client
C13_UpperCaseHigh ==
  /\ applied = "build"
  /\ input.confidence = "HIGH"
  /\ output.legacy.relevance = 90
  /\ output.response.confidence = 90

\* the quality the three bonuses alone give a URL
BonusQuality(url) ==
  Min(100, 50 + (IF UrlIncludes(url, "arxiv.org") \/ UrlIncludes(url, "scholar.google.com")
                   THEN 30 ELSE 0)
              + (IF UrlIncludes(url, ".edu") \/ UrlIncludes(url, ".gov") THEN 20 ELSE 0)
              + (IF UrlIncludes(url, "wikipedia.org") THEN 10 ELSE 0))

\* C14 (quality formula): the quality of a citation built from a URL is
\* min(1, 0.5 + 0.3 academic host + 0.2 government/edu domain + 0.1 encyclopedia
\* domain), nothing else of the marker changes it, an arxiv.org URL gets at
\* least 0.8, and the parser, the renderer and the API client give the same
\* URL the same quality.
C14_QualityFormula ==
  applied = "build" =>
    /\ output.legacy.quality = BonusQuality(input.url)
    /\ output.sourceLine.quality = BonusQuality(input.url)
    /\ output.response.quality = output.legacy.quality
    /\ UrlIncludes(input.url, "arxiv.org") => output.response.quality >= 80

\* the ordered rule list: the substrings of a rule and the type it gives
TypeRules ==
  << <<{"youtube.com", "youtu.be"}, "video">>,
     <<{".pdf"}, "pdf">>,
     <<{"spotify.com", "soundcloud.com"}, "audio">>,
     <<{".jpg", ".png", ".gif"}, "image">>,
     <<{"arxiv.org", "docs.", ".doc"}, "document">> >>

RuleMatches(url, r) == \E part \in TypeRules[r][1] : UrlIncludes(url, part)

\* the type of the earliest rule that matches, web when none does
FirstRuleType(url) ==
  IF \E r \in 1..Len(TypeRules) : RuleMatches(url, r)
    THEN TypeRules[CHOOSE r \in 1..Len(TypeRules) :
                     /\ RuleMatches(url, r)
                     /\ \A q \in 1..(r - 1) : ~RuleMatches(url, q)][2]
    ELSE "web"

SourceTypes == {"web", "pdf", "video", "audio", "image", "document"}

\* C15 (source type): the type of a built citation is the type of the first rule
\* of video host, .pdf, audio host, image extension, academic/doc host that
\* matches its URL, web when none matches, and always one of the six types.
C15_FirstRuleWins ==
  applied = "build" =>
    \A i \in 1..Len(BuiltList) :
      /\ BuiltList[i].type \in SourceTypes
      /\ BuiltList[i].url = input.url => BuiltList[i].type = FirstRuleType(input.url)

\* an arxiv.org URL that contains .pdf was typed pdf
C15_ArxivPdf ==
  /\ applied = "build"
  /\ input.url = "https://arxiv.org/pdf/1.pdf"
  /\ output.legacy.type = "pdf"
  /\ output.response.type = "pdf"

\* how often citation c occurs in list
Occurrences(list, c) == Cardinality({i \in 1..Len(list) : list[i] = c})

\* C16 (filter and count): the output of filterAndRankCitations holds only
\* citations of the input, each at most as often as the input does, all of
\* quality >= minQuality (a missing quality counting as 0), at most maxCount of
\* them, and leaves out no citation of sufficient quality unless it returns
\* maxCount citations.
C16_FilterAndCount ==
  applied = "rank" =>
    /\ \A i \in 1..Len(output) :
         /\ Occurrences(output, output[i]) <= Occurrences(input.citations, output[i])
         /\ QualityOf(output[i]) >= input.minQuality
    /\ Len(output) <= input.maxCitations
    /\ Len(output) < input.maxCitations =>
         \A i \in 1..Len(input.citations) :
           QualityOf(input.citations[i]) >= input.minQuality =>
             Occurrences(output, input.citations[i])
               = Occurrences(input.citations, input.citations[i])

\* a list of three was ranked with the default threshold: the citation without
\* quality was dropped, and of the two others only maxCount = 1 was returned
C16_DroppedAndCut ==
  /\ applied = "rank"
  /\ Len(input.citations) = 3
  /\ input.minQuality = 30
  /\ input.maxCitations = 1
  /\ Len(output) = 1
  /\ \E i \in 1..3 : "quality" \notin DOMAIN input.citations[i]
  /\ Cardinality({i \in 1..3 : QualityOf(input.citations[i]) >= 30}) = 2

\* the same citations in every order
Reorderings(list) ==
  {[i \in 1..Len(list) |-> list[p[i]]] :
     p \in {q \in [1..Len(list) -> 1..Len(list)] :
              \A i, j \in 1..Len(list) : q[i] = q[j] => i = j}}

\* C17 (ranking order): in the output of filterAndRankCitations, of two citations
\* whose relevance differs by more than 0.05 the more relevant comes first, and
\* two citations within 0.05 of each other are in descending quality order; and
\* ranking the same citations given in another order returns the same sequence
\* of relevance and quality.
C17_RankedOrder ==
  applied = "rank" =>
    /\ \A i, j \in 1..Len(output) :
         i < j =>
           IF output[i].relevance - output[j].relevance > RelevanceBand
                \/ output[j].relevance - output[i].relevance > RelevanceBand
             THEN output[i].relevance > output[j].relevance
             ELSE QualityOf(output[i]) >= QualityOf(output[j])
    /\ \A other \in Reorderings(input.citations) :
         \A ranked \in filterAndRankCitations(other, input.minQuality, input.maxCitations) :
           /\ Len(ranked) = Len(output)
           /\ \A i \in 1..Len(output) :
                /\ ranked[i].relevance = output[i].relevance
                /\ QualityOf(ranked[i]) = QualityOf(output[i])

\* two citations share a URL (one that both have) or a source name
SameUrlOrSource(c, d) == (c.url = d.url /\ c.url # Undefined) \/ c.source = d.source

\* C18 (deduplication): in the list extractCitationsFromContent returns no two
\* citations share a URL or a source name, and an existing citation is left out
\* only if a citation of the list really has its URL or its source name.
C18_Deduplicated ==
  applied = "extract" =>
    /\ \A i, j \in 1..Len(output) : i < j => ~SameUrlOrSource(output[i], output[j])
    /\ \A k \in 1..Len(input.existingCitations) :
         \/ \E i \in 1..Len(output) : output[i] = input.existingCitations[k]
         \/ \E i \in 1..Len(output) : SameUrlOrSource(output[i], input.existingCitations[k])

\* C19 (unique ids): the citations extracted by one parse of a text have pairwise
\* different ids, also when a [Source:n] number appears on two source lines.
C19_UniqueIds ==
  pc = "done" =>
    \A i, j \in 1..Len(extracted) : i # j => extracted[i].id # extracted[j].id

\* the markers among the pieces of the response
MarkersIn(pieces) == Cardinality({i \in 1..Len(pieces) : pieces[i] \in {LEGACY} \cup MalformedMarkers})

\* C20 (malformed fields): a marker with a malformed field is never rejected: one
\* citation is built for every marker of the text, also for a marker whose URL
\* field is missing or empty, and the citation of a marker whose date cannot be
\* parsed carries the current time.
C20_NoMarkerRejected ==
  applied = "response" =>
    /\ Len(output.markers) = MarkersIn(input)
    /\ MarkersIn(input) > 0 => Len(output.citations) = MarkersIn(input)
    /\ \A k \in 1..Len(output.markers) :
         (output.markers[k].groups[3] = "soon" /\ k <= Len(output.citations))
           => output.citations[k].timestamp = "now"

\* the highlighted segments of the returned list that carry the id
HighlightsOf(id) ==
  {i \in 1..Len(output.segments) :
     output.segments[i].isHighlighted /\ output.segments[i].citationId = id}

\* where the highlights of the citations before the k-th end: the cursor the
\* k-th citation is matched at
CursorBefore(k) ==
  LET ends == {output.segments[i].end :
                 i \in UNION {HighlightsOf(input.citations[j].id) : j \in 1..(k - 1)}}
  IN IF ends = {} THEN 0 ELSE CHOOSE e \in ends : \A f \in ends : f <= e

\* the part occurs in the text at the offset, letter case apart
OccursAt(txt, part, p) ==
  /\ p + Len(part) <= Len(txt)
  /\ SubSeq(ToLowerCase(txt), p + 1, p + Len(part)) = ToLowerCase(part)

\* the offsets from the cursor on at which the first 50 characters of the anchor occur
OccurrencesFrom(txt, anchor, cursor) ==
  {p \in cursor..Len(txt) :
     OccursAt(txt, SubSeq(anchor, 1, Min(AnchorPrefixLength, Len(anchor))), p)}

\* C23 (search from the cursor): no highlighted span starts before the cursor of
\* its citation, and a citation whose anchor occurs both before the cursor and at
\* or after it is highlighted at its first occurrence at or after the cursor.
C23_SearchFromCursor ==
  applied = "existing" =>
    \A k \in 1..Len(input.citations) :
      LET anchor == input.citations[k].highlightedText
          later == OccurrencesFrom(input.text, anchor, CursorBefore(k))
      IN /\ \A i \in HighlightsOf(input.citations[k].id) :
              output.segments[i].start >= CursorBefore(k)
         /\ (OccurrencesFrom(input.text, anchor, 0) # later /\ later # {})
              => \E i \in HighlightsOf(input.citations[k].id) :
                   /\ output.segments[i].start \in later
                   /\ \A p \in later : output.segments[i].start <= p

\* the citations whose anchor is found nowhere, or only before the cursor
Unmatched ==
  {k \in 1..Len(input.citations) :
     \/ MatchIndex(input.text, input.citations[k].highlightedText) = -1
     \/ MatchIndex(input.text, input.citations[k].highlightedText) < CursorBefore(k)}

\* where the last highlight of the returned list ends
LastHighlightEnd ==
  LET ends == {output.segments[i].end :
                 i \in {j \in 1..Len(output.segments) : output.segments[j].isHighlighted}}
  IN IF ends = {} THEN 0 ELSE CHOOSE e \in ends : \A f \in ends : f <= e

\* C26 (unmatched citation): a citation whose anchor is found nowhere, or only
\* before the cursor, has no segment and no reference, and the result is the one
\* of the list without it; the text after the last highlight is returned as one
\* final plain segment.
C26_UnmatchedLeavesNoTrace ==
  applied = "existing" =>
    /\ \A k \in Unmatched :
         /\ HighlightsOf(input.citations[k].id) = {}
         /\ \A r \in 1..Len(output.references) :
              output.references[r].citationId # input.citations[k].id
         /\ output = parseTextWithExistingCitations(
                       input.text,
                       SubSeq(input.citations, 1, k - 1)
                         \o SubSeq(input.citations, k + 1, Len(input.citations)))
    /\ LastHighlightEnd < Len(input.text) =>
         /\ output.segments[Len(output.segments)] =
              PlainSegment(SubstringFrom(input.text, LastHighlightEnd),
                           LastHighlightEnd, Len(input.text))
         /\ \A i \in 1..(Len(output.segments) - 1) :
              output.segments[i].end <= LastHighlightEnd

\* an unmatched citation, found only before the cursor, ahead of a plain remainder
C26_FoundOnlyBehind ==
  /\ applied = "existing"
  /\ \E k \in Unmatched : MatchIndex(input.text, input.citations[k].highlightedText) # -1
  /\ LastHighlightEnd > 0
  /\ LastHighlightEnd < Len(input.text)

\* the citation of the list that has the id
CitationOf(id) == input.citations[CHOOSE k \in 1..Len(input.citations) : input.citations[k].id = id]

\* the offset is the first one at which the first 50 characters of the anchor
\* occur, or they occur nowhere and it is the first one at which some 15
\* characters or more of the anchor occur
IsMatchPosition(txt, anchor, p) ==
  \/ /\ p \in OccurrencesFrom(txt, anchor, 0)
     /\ \A q \in OccurrencesFrom(txt, anchor, 0) : p <= q
  \/ /\ OccurrencesFrom(txt, anchor, 0) = {}
     /\ \E a \in 1..Len(anchor), b \in 1..Len(anchor) :
          /\ b - a + 1 >= MinPhraseLength
          /\ OccursAt(txt, SubSeq(anchor, a, b), p)
          /\ \A q \in 0..(p - 1) : ~OccursAt(txt, SubSeq(anchor, a, b), q)

\* C30 (span of an anchor match): a highlighted span begins at the match position
\* and is as long as the whole anchor, cut at the end of the text, whether the
\* first 50 characters of the anchor or a key phrase from its middle was found;
\* its reference has the same start and end, and there is one reference per
\* highlighted segment.
C30_SpanOfMatch ==
  applied = "existing" =>
    LET hs == {i \in 1..Len(output.segments) : output.segments[i].isHighlighted}
    IN /\ Len(output.references) = Cardinality(hs)
       /\ \A i \in hs :
            LET seg == output.segments[i]
                anchor == CitationOf(seg.citationId).highlightedText
                n == Cardinality({j \in hs : j <= i})
            IN /\ IsMatchPosition(input.text, anchor, seg.start)
               /\ seg.end - seg.start = Min(Len(anchor), Len(input.text) - seg.start)
               /\ seg.text = SubSeq(input.text, seg.start + 1, seg.end)
               /\ output.references[n].citationId = seg.citationId
               /\ output.references[n].highlightStart = seg.start
               /\ output.references[n].highlightEnd = seg.end

\* a span found through a key phrase from the middle of its anchor and cut at
\* the end of the text
C30_PhraseFromTheMiddle ==
  /\ applied = "existing"
  /\ \E i \in 1..Len(output.segments) :
       /\ output.segments[i].isHighlighted
       /\ OccurrencesFrom(input.text, CitationOf(output.segments[i].citationId).highlightedText, 0) = {}
       /\ output.segments[i].end = Len(input.text)
       /\ output.segments[i].end - output.segments[i].start
            < Len(CitationOf(output.segments[i].citationId).highlightedText)

\* the end of the nearest sentence boundary of s before offset p: the end of the
\* white space that follows a ".", "!" or "?", or the start of the text
BoundaryBefore(s, p) ==
  LET ends == {e \in 2..p :
                 /\ e = p \/ s[e + 1] \notin Whitespace
                 /\ \E i \in 1..(e - 1) :
                      /\ s[i] \in SentenceEnd
                      /\ \A j \in (i + 1)..e : s[j] \in Whitespace}
  IN IF ends = {} THEN 0 ELSE CHOOSE e \in ends : \A f \in ends : f <= e

\* the offset in the text without markers of offset p of the text with them
WithoutMarkers(s, p) == p - Cardinality({i \in 1..p : s[i] \in OpenMarkers})

\* the marker at offset p of the cleaned text has its sentence highlighted
SentenceHighlighted(p) ==
  LET b == BoundaryBefore(cleanText, p)
      sentence == RemoveSymbols(SubSeq(cleanText, b + 1, p), OpenMarkers)
  IN Trim(sentence) # <<>> =>
       \E i \in 1..Len(segments) :
         /\ segments[i].isHighlighted
         /\ segments[i].text = sentence
         /\ segments[i].citationId = "inline-citation-" \o CiteNumber(cleanText[p + 1])
         /\ segments[i].start = WithoutMarkers(cleanText, b)
         /\ segments[i].end = WithoutMarkers(cleanText, p)

\* C24 (sentence before a bare marker): in end-of-sentence mode the parse of a
\* text with a bare [CITE:n] marker returns, and for every marker it returns a
\* highlighted segment that is exactly the text from the nearest preceding
\* sentence boundary, the start of the text included, up to the marker, at the
\* offsets of the text without markers and tagged with the citation of number n.
C24_SentenceHighlighted ==
  /\ [](pc = "done" /\ dialect = "endOfSentence" =>
          \A p \in 0..(Len(cleanText) - 1) :
            cleanText[p + 1] \in OpenMarkers => SentenceHighlighted(p))
  /\ [](pc = "scan" => <>(pc = "done"))

\* C25 (markers stripped): when the call has returned, no segment holds a
\* [CITE:n] marker, a [/CITE:n] marker or a [Source: marker of any form, the
\* legacy pipe-delimited one included.
C25_MarkersStripped ==
  pc = "done" =>
    \A i \in 1..Len(segments) : \A j \in 1..Len(segments[i].text) :
      segments[i].text[j] \notin
        OpenMarkers \cup CloseMarkers \cup SourceLines \cup OldSourceLines \cup LegacyMarkers

\* the text has a numbered source line, of either form, for the number
HasSourceLine(n) ==
  \E q \in 1..Len(text) :
    text[q] \in SourceLines \cup OldSourceLines /\ SourceNumber(text[q]) = n

\* the citation is the placeholder of the number
IsPlaceholder(c, n) ==
  /\ c.type = "web"
  /\ c.relevance = 70
  /\ c.confidence = 60
  /\ c.quality = 50
  /\ c.url = "#source-" \o n

\* the number of matches of the wrapped pattern in s from offset from on
RECURSIVE WrappedMatchCount(_, _)
WrappedMatchCount(s, from) ==
  IF ExecWrapped(s, from) = NoMatch THEN 0
  ELSE 1 + WrappedMatchCount(s, ExecWrapped(s, from).end)

\* C29 (every number has a citation): in wrapped and end-of-sentence mode, once
\* the placeholders are built, every number of a [CITE:n] marker has a citation
\* with id inline-citation-n in the extracted list, built from the source line of
\* that number when the text has one and the placeholder otherwise; so every
\* wrapped span is returned as a highlighted segment.
C29_EveryNumberCited ==
  (pc \in {"scan", "done"} /\ dialect \in {"wrapped", "endOfSentence"}) =>
    /\ \A p \in 1..Len(text) :
         text[p] \in OpenMarkers =>
           /\ \E i \in 1..Len(extracted) :
                extracted[i].id = "inline-citation-" \o CiteNumber(text[p])
           /\ \A i \in 1..Len(extracted) :
                extracted[i].id = "inline-citation-" \o CiteNumber(text[p]) =>
                  IF HasSourceLine(CiteNumber(text[p]))
                    THEN extracted[i].url = "http://x.com"
                    ELSE IsPlaceholder(extracted[i], CiteNumber(text[p]))
    /\ (pc = "done" /\ dialect = "wrapped") =>
         Cardinality({i \in 1..Len(segments) : segments[i].isHighlighted})
           = WrappedMatchCount(cleanText, 0)

\* a wrapped span of a number without source line, in a text that has the source
\* line of the other number
C29_PlaceholderBesideSource ==
  /\ pc = "done"
  /\ dialect = "wrapped"
  /\ \E i \in 1..Len(segments) : segments[i].citationId = "inline-citation-2"
  /\ \E i \in 1..Len(extracted) : IsPlaceholder(extracted[i], "2")
  /\ \E i \in 1..Len(extracted) : extracted[i].url = "http://x.com"

\* C21 (failure surfaced, no retry): when sendMessage rejects, it has made no
\* second fetch; the catch block of the chat then sets the error string, appends
\* no assistant message and keeps the user message, resets isLoading and issues
\* no further request: the failed request is over and no request is added.
C21_FailureSurfaced ==
  [][\A i \in 1..Len(requests) :
       /\ (requests[i].state = "sent" /\ requests'[i].state = "failed") =>
            /\ Len(requests') = Len(requests)
            /\ messages' = messages
            /\ error' = error
       /\ (requests[i].kind = "chat" /\ requests[i].state = "failed"
             /\ requests'[i] # requests[i]) =>
            /\ error' = "Failed to get AI response"
            /\ messages' = messages
            /\ isLoading' = FALSE
            /\ requests' = [requests EXCEPT ![i].state = "done"]]_vars

\* the only submission has failed: its user message is the last one, the error
\* is shown and nothing is in flight
C21_FailedSubmission ==
  /\ Len(messages) = 1
  /\ messages[1].role = "user"
  /\ error = "Failed to get AI response"
  /\ ~isLoading
  /\ Len(requests) = 1
  /\ requests[1].state = "done"

\* the user messages of the conversation
UserMessages == {k \in 1..Len(messages) : messages[k].role = "user"}

\* the chat requests issued so far
ChatRequests == {i \in 1..Len(requests) : requests[i].kind = "chat"}

\* C22 (one request per submission, guarded): every submission that is accepted
\* issues exactly one generation request, and a submission is accepted only
\* while isLoading is false; two chat requests are in flight together only after
\* a source search has been started.
C22_GuardedSubmission ==
  /\ [](Cardinality(ChatRequests) = Cardinality(UserMessages))
  /\ [](Cardinality(InFlight("chat")) > 1 =>
          \E i \in 1..Len(requests) : requests[i].kind = "search")
  /\ [][Cardinality(UserMessages') # Cardinality(UserMessages)
          \/ Cardinality(ChatRequests') # Cardinality(ChatRequests)
        => /\ ~isLoading
           /\ Cardinality(UserMessages') = Cardinality(UserMessages) + 1
           /\ Cardinality(ChatRequests') = Cardinality(ChatRequests) + 1]_vars

\* C22 as stated: a submission while a chat request is pending is not guarded
\* against: whenever a chat request is in flight, handleSendMessage with a
\* non-empty message starts a second request.
C22_NotGuarded ==
  (/\ InFlight("chat") # {}
   /\ TrimString(currentMessage) # ""
   /\ geminiService
   /\ Len(requests) < MaxRequests) => ENABLED handleSendMessage

\* a message is waiting in the input while a chat request is in flight and
\* isLoading is true
C22_SubmissionWhilePending ==
  /\ InFlight("chat") # {}
  /\ isLoading
  /\ TrimString(currentMessage) # ""
  /\ Len(requests) < MaxRequests

\* C27 (isLoading covers the requests): isLoading is true in every state in which
\* a chat or search request is in flight, whatever the interleaving of the two
\* handlers and their completions, and at most one chat request is in flight.
C27_LoadingWhileInFlight ==
  /\ (InFlight("chat") \cup InFlight("search") # {}) => isLoading
  /\ Cardinality(InFlight("chat")) <= 1

\* the number of places of s at which part occurs
CountOf(s, part) ==
  Cardinality({i \in 1..(Len(s) - Len(part) + 1) : SubSeq(s, i, i + Len(part) - 1) = part})

\* C28 (simple format, end to end): the content sendMessage returns holds no
\* "[Source:" token and all the [CITE:n] markers of the response, so that its
\* parse resolves every [CITE:n] to a placeholder (Research Source n, #source-n)
\* and never to the title and URL of a source line of the response.
C28_SourcesStripped ==
  applied = "reply" =>
    /\ ~UrlIncludes(output.content, "[Source:")
    /\ CountOf(output.content, CITE1) = CountOf(input, CITE1)
    /\ CountOf(input, CITE1) > 0 => Len(output.extracted) = 1
    /\ \A i \in 1..Len(output.extracted) :
         /\ output.extracted[i].source = "Research Source 1"
         /\ output.extracted[i].url = "#source-1"

====
